---- MODULE Spec2Model ----
(***************************************************************************)
(* A model of the MIMIC-III preprocessing pipeline of clinicalBERT         *)
(* (src/src/mimic_preprocess.py): admission chaining and labelling, the    *)
(* code vocabularies, the ICD hierarchy reduction, the medication          *)
(* normaliser, the note chunker, the train/val/test sampler, the          *)
(* per-admission code mapper, the input and output statements of a run    *)
(* and the early-notes selections.                                        *)
(*                                                                         *)
(* Each component has its own specification (SpecLabeler, SpecChunker,     *)
(* ...) over its own variables; the variables of the other components      *)
(* stay at their idle values.                                              *)
(*                                                                         *)
(* Conventions.  A nullable cell of a data frame (NaT, NaN, None) is the   *)
(* empty sequence Missing, a present value v is <<v>>.  Times are whole    *)
(* days, so that (a - b).dt.total_seconds()/(24*60*60) is a - b.           *)
(***************************************************************************)
EXTENDS Integers, Sequences, FiniteSets, TLC

VARIABLES
    df_adm,     \* the admission table: a sequence of rows (records)
    pc_adm,     \* position of the script in lines 223-256
    note,       \* preprocessing: the row of df_less_n being chunked
    x_tokens,   \* preprocessing: x, the tokens of the row's TEXT (line 400)
    j_loop,     \* preprocessing: j, the index of the inner loop (line 402)
    want,       \* preprocessing: the output rows, one per chunk
    pc_chunk,   \* preprocessing: position in the loop body
    features,   \* featureToIdx: the codes, in iteration order
    pos,        \* featureToIdx: number of entries the loop has visited
    feature2idx,\* featureToIdx: the dictionary being built
    idx,        \* featureToIdx: the next unused index
    pc_f2i,     \* featureToIdx: position in the function
    icd9_code,  \* getICDlevel1: the argument
    smallICD,   \* getICDlevel1: the returned value
    pc_icd,     \* getICDlevel1: position in the function
    ndcCuiMap,          \* get_unique_ordered_medication: the NDC -> CUI table
    med_values,         \* the raw NDC list of the admission (line 194)
    med_pos,            \* number of values the loop has handled
    used_medications,   \* line 190
    unique_medication,  \* line 192
    temp_cuis_list,     \* line 193
    mapped,             \* line 181
    unmapped,           \* line 182
    pc_med,             \* position in the loop over the values
    files,          \* the vocabulary files of ../data/extended: path -> content
    file_writes,    \* how many times each path has been written (json.dump)
    writers,        \* the pipeline processes that run against the directory
    runs,           \* per process: its position in the vocabulary steps of a run
    readmit_ID,         \* line 439: the admission ids with OUTPUT_LABEL 1
    not_readmit_ID,     \* line 440: the admission ids with OUTPUT_LABEL 0
    not_readmit_ID_use, \* line 442
    id_val_test_t,      \* line 443
    id_val_test_f,      \* line 444
    id_train_t,         \* line 446
    id_train_f,         \* line 447
    id_val_t,           \* line 449
    id_test_t,          \* line 450
    id_val_f,           \* line 452
    id_test_f,          \* line 453
    test_id_label,      \* line 459: rows (id, label)
    val_id_label,       \* line 462
    train_id_label,     \* line 465
    pc_split,           \* position of the script in lines 439-465
    ICD9_CODE,              \* map_ICD9_to_CCS: row.ICD9_CODE, the codes of one admission
    icd_pos,                \* number of codes the loop of line 137 has handled
    tempSmallICDCodeList,   \* line 135
    tempCCSCodeList,        \* line 136
    icd9TOCCS_Map,          \* line 129: the content of merged_icdccs_codes.json
    mapped_icd,             \* line 133: mapped
    unmapped_icd,           \* line 132: unmapped
    pc_map,                 \* position in the loop over the codes
    inputs_present,     \* the input files that exist when the script starts
    dirs_present,       \* the output directories that exist
    vocab_present,      \* the vocabulary files that exist
    written,            \* the output files this run has written, in order
    step_run,           \* the input/output statement the script is at
    pc_run,             \* "running", "aborted" or "done"
    output_dir,         \* run_readmission: the state of args.output_dir
    pc_main,            \* run_readmission: position of main around lines 242-244
    run_tables,         \* the reference tables two runs are both given
    run_path,           \* the vocabulary file the two runs build
    run_vocab,          \* per run: the mapping it wrote to the file
    df_less_3,          \* lines 370, 428: the admissions with chunks of notes of the first 3 days
    df_less_2,          \* lines 369, 427: the admissions with chunks of notes of the first 2 days
    early_val,          \* line 520
    early_test,         \* line 528
    early_test_2days,   \* line 539
    pc_early,           \* position of the script in lines 520-542
    reserve_df,         \* lines 478-479: df, the not-readmitted ids left out of the balanced pool
    not_readmit_ID_more,\* lines 484, 513
    discharge_train_ids,\* line 485: HADM_IDs of discharge_train_snippets
    early_train_ids,    \* line 514: HADM_IDs of early_train_snippets
    csv_out,            \* the dataset files written by lines 495-542, in order
    pc_reserve,         \* position of the script in lines 478-542
    pending             \* per writer process: the content it holds inside writeToJSON

labelVars == <<df_adm, pc_adm>>

chunkVars == <<note, x_tokens, j_loop, want, pc_chunk>>

f2iVars == <<features, pos, feature2idx, idx, pc_f2i>>

icdVars == <<icd9_code, smallICD, pc_icd>>

medVars == <<ndcCuiMap, med_values, med_pos, used_medications, unique_medication,
             temp_cuis_list, mapped, unmapped, pc_med>>

fileVars == <<files, file_writes, writers, runs>>

poolVars == <<readmit_ID, not_readmit_ID, not_readmit_ID_use>>

drawVars == <<id_val_test_t, id_val_test_f, id_train_t, id_train_f,
              id_val_t, id_test_t, id_val_f, id_test_f>>

splitVars == <<poolVars, drawVars, test_id_label, val_id_label, train_id_label, pc_split>>

mapVars == <<ICD9_CODE, icd_pos, tempSmallICDCodeList, tempCCSCodeList, icd9TOCCS_Map,
             mapped_icd, unmapped_icd, pc_map>>

runVars == <<inputs_present, dirs_present, vocab_present, written, step_run, pc_run,
             output_dir, pc_main>>

twinVars == <<run_tables, run_path, run_vocab>>

earlyVars == <<df_less_3, df_less_2, early_val, early_test, early_test_2days, pc_early>>

reserveVars == <<reserve_df, not_readmit_ID_more, discharge_train_ids, early_train_ids,
                 csv_out, pc_reserve>>

raceVars == <<pending>>

vars == <<labelVars, chunkVars, f2iVars, icdVars, medVars, fileVars, splitVars,
          mapVars, runVars, twinVars, earlyVars,
                reserveVars, raceVars>>

\* the variables other than those of one component
notLabelVars == <<chunkVars, f2iVars, icdVars, medVars, fileVars, splitVars,
                mapVars, runVars, twinVars, earlyVars,
                reserveVars, raceVars>>

notChunkVars == <<labelVars, f2iVars, icdVars, medVars, fileVars, splitVars,
                mapVars, runVars, twinVars, earlyVars,
                reserveVars, raceVars>>

notF2iVars == <<labelVars, chunkVars, icdVars, medVars, fileVars, splitVars,
                mapVars, runVars, twinVars, earlyVars,
                reserveVars, raceVars>>

notIcdVars == <<labelVars, chunkVars, f2iVars, medVars, fileVars, splitVars,
                mapVars, runVars, twinVars, earlyVars,
                reserveVars, raceVars>>

notMedVars == <<labelVars, chunkVars, f2iVars, icdVars, fileVars, splitVars,
                mapVars, runVars, twinVars, earlyVars,
                reserveVars, raceVars>>

notFileVars == <<labelVars, chunkVars, f2iVars, icdVars, medVars, splitVars,
                mapVars, runVars, twinVars, earlyVars,
                reserveVars, raceVars>>

notSplitVars == <<labelVars, chunkVars, f2iVars, icdVars, medVars, fileVars,
                mapVars, runVars, twinVars, earlyVars,
                reserveVars, raceVars>>

notMapVars == <<labelVars, chunkVars, f2iVars, icdVars, medVars, fileVars, splitVars,
                runVars, twinVars, earlyVars,
                reserveVars, raceVars>>

notRunVars == <<labelVars, chunkVars, f2iVars, icdVars, medVars, fileVars, splitVars,
                mapVars, twinVars, earlyVars,
                reserveVars, raceVars>>

notTwinVars == <<labelVars, chunkVars, f2iVars, icdVars, medVars, fileVars, splitVars,
                 mapVars, runVars, earlyVars,
                reserveVars, raceVars>>

notEarlyVars == <<labelVars, chunkVars, f2iVars, icdVars, medVars, fileVars, splitVars,
                  mapVars, runVars, twinVars,
                reserveVars, raceVars>>

notReserveVars == <<labelVars, chunkVars, f2iVars, icdVars, medVars, fileVars, splitVars,
                    mapVars, runVars, twinVars, earlyVars, raceVars>>

notRaceVars == <<labelVars, chunkVars, f2iVars, icdVars, medVars, splitVars,
                 mapVars, runVars, twinVars, earlyVars, reserveVars>>

\* the idle values of each component's variables
IdleLabeler == df_adm = <<>> /\ pc_adm = "idle"

IdleChunker == note = <<>> /\ x_tokens = <<>> /\ j_loop = 0 /\ want = <<>> /\ pc_chunk = "idle"

IdleF2i == features = <<>> /\ pos = 0 /\ feature2idx = <<>> /\ idx = 0 /\ pc_f2i = "idle"

IdleIcd == icd9_code = "" /\ smallICD = <<>> /\ pc_icd = "idle"

IdleMed ==
    /\ ndcCuiMap = <<>> /\ med_values = <<>> /\ med_pos = 0
    /\ used_medications = {} /\ unique_medication = <<>> /\ temp_cuis_list = <<>>
    /\ mapped = 0 /\ unmapped = 0 /\ pc_med = "idle"

IdleFiles == files = <<>> /\ file_writes = <<>> /\ writers = {} /\ runs = <<>>

IdleSplit ==
    /\ readmit_ID = {} /\ not_readmit_ID = {} /\ not_readmit_ID_use = {}
    /\ id_val_test_t = {} /\ id_val_test_f = {} /\ id_train_t = {} /\ id_train_f = {}
    /\ id_val_t = {} /\ id_test_t = {} /\ id_val_f = {} /\ id_test_f = {}
    /\ test_id_label = {} /\ val_id_label = {} /\ train_id_label = {}
    /\ pc_split = "idle"

IdleMapper ==
    /\ ICD9_CODE = <<>> /\ icd_pos = 0 /\ tempSmallICDCodeList = <<>> /\ tempCCSCodeList = <<>>
    /\ icd9TOCCS_Map = <<>> /\ mapped_icd = 0 /\ unmapped_icd = 0 /\ pc_map = "idle"

IdleRun ==
    /\ inputs_present = {} /\ dirs_present = {} /\ vocab_present = {} /\ written = <<>>
    /\ step_run = 0 /\ pc_run = "idle" /\ output_dir = "absent" /\ pc_main = "idle"

IdleTwin == run_tables = 0 /\ run_path = "" /\ run_vocab = <<>>

IdleEarly ==
    /\ df_less_3 = {} /\ df_less_2 = {} /\ early_val = {} /\ early_test = {}
    /\ early_test_2days = {} /\ pc_early = "idle"

IdleReserve ==
    /\ reserve_df = {} /\ not_readmit_ID_more = {} /\ discharge_train_ids = {}
    /\ early_train_ids = {} /\ csv_out = <<>> /\ pc_reserve = "idle"

IdleRace == pending = <<>>

\* the components added to the first seven are idle
IdleRest == IdleMapper /\ IdleRun /\ IdleTwin /\ IdleEarly /\ IdleReserve /\ IdleRace

----------------------------------------------------------------------------
(* Helpers on nullable cells and sequences *)

Missing == <<>>

Some(v) == <<v>>

IsMissing(c) == c = Missing

\* (a - b) on nullable day values: missing if either side is missing
Minus(a, b) == IF IsMissing(a) \/ IsMissing(b) THEN Missing ELSE Some(a[1] - b[1])

Min(a, b) == IF a <= b THEN a ELSE b

SetMin(S) == CHOOSE m \in S : \A o \in S : m <= o

SetMax(S) == CHOOSE m \in S : \A o \in S : m >= o

Reverse(s) == [i \in 1..Len(s) |-> s[Len(s) + 1 - i]]

----------------------------------------------------------------------------
(* AdmissionLabeler: mimic_preprocess.py lines 223-256 *)

\* the readmission window of line 252, in days
LabelWindowDays == 30

\* bounds of the admission inputs
MaxAdm == 4

\* admission types of the raw table; EMERGENCY stands for every type that is
\* neither ELECTIVE nor NEWBORN
AdmissionTypes == {"EMERGENCY", "ELECTIVE", "NEWBORN"}

\* admit times (days) of the successive raw rows: gaps of 6 and 35 days
AdmitGrid(k) == (k \div 2) * 41 + (k % 2) * 6

\* lengths of stay (days): shorter and longer than the gap to the next admission
Stays == {5, 40}

\* the per-row inputs: type, length of stay, and whether the patient died
RowProfiles ==
    { p \in [type : AdmissionTypes, stay : Stays, dead : BOOLEAN] :
        /\ p.dead => (p.type = "EMERGENCY" /\ p.stay = 5)
        /\ p.type = "NEWBORN" => p.stay = 5 }

\* a raw row of ADMISSIONS.csv after the to_datetime coercions (lines 223-226)
RawRow(k, subj, p) ==
    [ SUBJECT_ID     |-> subj,
      HADM_ID        |-> 100 + k,
      ADMITTIME      |-> Some(AdmitGrid(k)),
      DISCHTIME      |-> Some(AdmitGrid(k) + p.stay),
      DEATHTIME      |-> IF p.dead THEN Some(AdmitGrid(k) + p.stay) ELSE Missing,
      ADMISSION_TYPE |-> Some(p.type) ]

\* a raw table of n rows, the first `cut` of patient 1 and the rest of patient
\* 2, stored in descending order so that the sort of line 228 has work to do
RawTable(n, ps, cut) ==
    Reverse([k \in 1..n |-> RawRow(k, IF k <= cut THEN 1 ELSE 2, ps[k])])

\* sort key order of sort_values(['SUBJECT_ID','ADMITTIME']): missing times last
TimeLeq(a, b) == IF IsMissing(b) THEN TRUE ELSE IF IsMissing(a) THEN FALSE ELSE a[1] <= b[1]

RowLeq(a, b) ==
    \/ a.SUBJECT_ID < b.SUBJECT_ID
    \/ a.SUBJECT_ID = b.SUBJECT_ID /\ TimeLeq(a.ADMITTIME, b.ADMITTIME)

\* insert row r into the sorted sequence s after every row that is <= r (stable)
RECURSIVE InsertSorted(_, _)
InsertSorted(s, r) ==
    IF s = <<>> THEN <<r>>
    ELSE IF RowLeq(s[Len(s)], r) THEN Append(s, r)
    ELSE Append(InsertSorted(SubSeq(s, 1, Len(s) - 1), r), s[Len(s)])

RECURSIVE SortValues(_)
SortValues(s) ==
    IF s = <<>> THEN <<>>
    ELSE InsertSorted(SortValues(SubSeq(s, 1, Len(s) - 1)), s[Len(s)])

\* positions of the rows of i's patient after / before i, in table order
LaterInGroup(df, i) == { j \in (i+1)..Len(df) : df[j].SUBJECT_ID = df[i].SUBJECT_ID }

EarlierInGroup(df, i) == { j \in 1..(i-1) : df[j].SUBJECT_ID = df[i].SUBJECT_ID }

\* df.groupby('SUBJECT_ID').<col>.shift(-1): the cell of the next row of the group
ShiftNextMutant(df, col, i) ==
    IF i < Len(df) THEN df[i+1][col] ELSE Missing

\* the shift as it would be if it passed over ELECTIVE admissions
ShiftNextSkipElectiveMutant(df, col, i) ==
    LET later == { j \in LaterInGroup(df, i) : df[j].ADMISSION_TYPE # Some("ELECTIVE") }
    IN IF later = {} THEN Missing ELSE df[SetMin(later)][col]

\* the shift as it would be if NEWBORN and deceased rows were dropped before it
ShiftNextPrefilterMutant(df, col, i) ==
    LET later == { j \in LaterInGroup(df, i) :
                     df[j].ADMISSION_TYPE # Some("NEWBORN") /\ IsMissing(df[j].DEATHTIME) }
    IN IF later = {} THEN Missing ELSE df[SetMin(later)][col]

ShiftNext(df, col, i) ==
    IF LaterInGroup(df, i) = {} THEN Missing ELSE df[SetMin(LaterInGroup(df, i))][col]

\* shift(1) over the whole table, across patients
ShiftPrevMutant(df, col, i) ==
    IF i > 1 THEN df[i-1][col] ELSE Missing

\* df.groupby('SUBJECT_ID').<col>.shift(1): the cell of the previous row of the group
ShiftPrev(df, col, i) ==
    IF EarlierInGroup(df, i) = {} THEN Missing ELSE df[SetMax(EarlierInGroup(df, i))][col]

\* groupby('SUBJECT_ID')[col].fillna(method='bfill'): a missing cell takes the
\* first present cell below it in its group
RECURSIVE BFill(_, _, _)
BFill(df, col, i) ==
    IF ~IsMissing(df[i][col]) THEN df[i][col]
    ELSE IF LaterInGroup(df, i) = {} THEN Missing
    ELSE BFill(df, col, SetMin(LaterInGroup(df, i)))

\* the label as ~(DAYS_NEXT_ADMIT >= 30)
OutputLabelMutant(days) == IF ~IsMissing(days) /\ days[1] >= LabelWindowDays THEN 0 ELSE 1

\* line 252: (DAYS_NEXT_ADMIT < 30).astype('int'); a comparison with NaN is False
OutputLabel(days) == IF ~IsMissing(days) /\ days[1] < LabelWindowDays THEN 1 ELSE 0

\* add or overwrite columns of row r
WithCols(r, new) == new @@ r

InitLabeler ==
    /\ \E n \in 0..MaxAdm :
         \E ps \in [1..n -> RowProfiles], cut \in (IF n = 0 THEN {0} ELSE 1..n) :
            df_adm = RawTable(n, ps, cut)
    /\ pc_adm = "loaded"
    /\ IdleChunker /\ IdleF2i /\ IdleIcd /\ IdleMed /\ IdleFiles /\ IdleSplit /\ IdleRest

\* lines 228-229
SortAdmissions ==
    /\ pc_adm = "loaded"
    /\ df_adm' = SortValues(df_adm)
    /\ pc_adm' = "sorted"
    /\ UNCHANGED notLabelVars

\* lines 230-234
ShiftColumns ==
    /\ pc_adm = "sorted"
    /\ df_adm' = [i \in 1..Len(df_adm) |->
            WithCols(df_adm[i],
                [ NEXT_ADMITTIME      |-> ShiftNext(df_adm, "ADMITTIME", i),
                  NEXT_ADMISSION_TYPE |-> ShiftNext(df_adm, "ADMISSION_TYPE", i),
                  PREV_DISCHTIME      |-> ShiftPrev(df_adm, "DISCHTIME", i),
                  PREV_ADMISSION_TYPE |-> ShiftPrev(df_adm, "ADMISSION_TYPE", i) ])]
    /\ pc_adm' = "shifted"
    /\ UNCHANGED notLabelVars

\* lines 236-238
NullElective ==
    /\ pc_adm = "shifted"
    /\ df_adm' = [i \in 1..Len(df_adm) |->
            IF df_adm[i].NEXT_ADMISSION_TYPE = Some("ELECTIVE")
            THEN WithCols(df_adm[i],
                    [ NEXT_ADMITTIME |-> Missing, NEXT_ADMISSION_TYPE |-> Missing ])
            ELSE df_adm[i]]
    /\ pc_adm' = "nulled"
    /\ UNCHANGED notLabelVars

\* lines 244-250: sort again, backward fill of the NEXT_ and PREV_ columns, day gaps
BackFillAndGaps ==
    /\ pc_adm = "nulled"
    /\ \E s \in {SortValues(df_adm)} :
         \E f \in {[i \in 1..Len(s) |->
                    WithCols(s[i],
                        [ NEXT_ADMITTIME      |-> BFill(s, "NEXT_ADMITTIME", i),
                          NEXT_ADMISSION_TYPE |-> BFill(s, "NEXT_ADMISSION_TYPE", i),
                          PREV_DISCHTIME      |-> BFill(s, "PREV_DISCHTIME", i),
                          PREV_ADMISSION_TYPE |-> BFill(s, "PREV_ADMISSION_TYPE", i) ])]} :
            df_adm' = [i \in 1..Len(f) |->
                WithCols(f[i],
                    [ DAYS_NEXT_ADMIT |-> Minus(f[i].NEXT_ADMITTIME, f[i].DISCHTIME),
                      DAYS_PREV_ADMIT |-> Minus(f[i].ADMITTIME, f[i].PREV_DISCHTIME) ])]
    /\ pc_adm' = "filled"
    /\ UNCHANGED notLabelVars

\* line 252
LabelAdmissions ==
    /\ pc_adm = "filled"
    /\ df_adm' = [i \in 1..Len(df_adm) |->
            WithCols(df_adm[i], [ OUTPUT_LABEL |-> OutputLabel(df_adm[i].DAYS_NEXT_ADMIT) ])]
    /\ pc_adm' = "labelled"
    /\ UNCHANGED notLabelVars

\* lines 254-255: the rows that are neither NEWBORN nor have a death time
KeepAdmissionMutant(r) == r.ADMISSION_TYPE # Some("NEWBORN")

KeepAdmission(r) == r.ADMISSION_TYPE # Some("NEWBORN") /\ IsMissing(r.DEATHTIME)

\* df[mask]: the rows of s that satisfy the mask, in order
RECURSIVE SelectAdmissions(_)
SelectAdmissions(s) ==
    IF s = <<>> THEN <<>>
    ELSE IF KeepAdmission(s[1]) THEN <<s[1]>> \o SelectAdmissions(Tail(s))
    ELSE SelectAdmissions(Tail(s))

\* lines 254-256
FilterAdmissions ==
    /\ pc_adm = "labelled"
    /\ \E kept \in {SelectAdmissions(df_adm)} :
         df_adm' = [i \in 1..Len(kept) |->
                WithCols(kept[i], [ DURATION |-> Minus(kept[i].DISCHTIME, kept[i].ADMITTIME) ])]
    /\ pc_adm' = "filtered"
    /\ UNCHANGED notLabelVars

\* the HADM_IDs of the rows of df with the given OUTPUT_LABEL
IdsWithLabel(df, l) == { df[i].HADM_ID : i \in { k \in 1..Len(df) : df[k].OUTPUT_LABEL = l } }

\* lines 439-440: the two pools of admission ids are taken from the final table
\* (the left merges of lines 270-308 add columns to it, never rows)
SelectPoolIds ==
    /\ pc_adm = "filtered"
    /\ readmit_ID' = IdsWithLabel(df_adm, 1)
    /\ not_readmit_ID' = IdsWithLabel(df_adm, 0)
    /\ pc_adm' = "pooled"
    /\ UNCHANGED <<df_adm, not_readmit_ID_use, drawVars, test_id_label, val_id_label,
                   train_id_label, pc_split>>
    /\ UNCHANGED <<chunkVars, f2iVars, icdVars, medVars, fileVars,
                   mapVars, runVars, twinVars, earlyVars, reserveVars, raceVars>>

NextLabeler ==
    \/ SortAdmissions
    \/ ShiftColumns
    \/ NullElective
    \/ BackFillAndGaps
    \/ LabelAdmissions
    \/ FilterAdmissions
    \/ SelectPoolIds

SpecLabeler == InitLabeler /\ [][NextLabeler]_vars

----------------------------------------------------------------------------
(* NoteChunker: preprocessing, mimic_preprocess.py lines 385-424 *)

\* the chunk length of lines 401-403 and the remainder threshold of line 413
ChunkSize == 318

MinRemainder == 10

\* bound on the number of tokens of one admission's text
MaxTokens == 660

\* the tokens of a text of L words; each token is named by its position, so
\* that every slice of the text identifies the words it holds
Tokens(L) == [k \in 1..L |-> k]

\* x[a:b] of Python for 0 <= a <= b: the tokens a+1 .. min(b, len(x))
Slice(s, a, b) == SubSeq(s, a + 1, Min(b, Len(s)))

\* line 401: n = int(len(x)/318)
NumFull(s) == Len(s) \div ChunkSize

\* line 403: x[j*318:(j+1)*318]
FullChunkMutant(s, k) == Slice(s, k * (ChunkSize - 1), k * (ChunkSize - 1) + ChunkSize)

FullChunk(s, k) == Slice(s, k * ChunkSize, (k + 1) * ChunkSize)

\* line 413: len(x)%318 > 10
KeepRemainderMutant(s) == Len(s) % ChunkSize >= MinRemainder

KeepRemainder(s) == Len(s) % ChunkSize > MinRemainder

\* line 414: x[-(len(x)%318):], used only when the remainder is positive
LastChunk(s) == SubSeq(s, Len(s) - (Len(s) % ChunkSize) + 1, Len(s))

\* the columns of an admission that a chunk row repeats next to TEXT and Label
StructuredColumns ==
    { "HADM_ID", "SUBJECT_ID", "ADMITTIME", "DAYS_NEXT_ADMIT", "DAYS_PREV_ADMIT", "DURATION",
      "NDC", "DIAG_ICD9", "DIAG_CCS", "PROC_ICD9", "PROC_CCS", "SMALL_DIAG_ICD9",
      "SMALL_PROC_ICD9", "CUI", "NEXT_CUI", "NEXT_SMALL_DIAG_ICD9", "NEXT_SMALL_PROC_ICD9",
      "NEXT_DIAG_CCS", "NEXT_PROC_CCS" }

\* the structured cells of the admission a text belongs to; the content of a
\* cell is named after its column
StructuredCells == [c \in StructuredColumns \ {"HADM_ID"} |-> c] @@ [HADM_ID |-> 101]

\* a row that takes the lists of the next admission from the admission's own
ChunkRowMutant(r, text) ==
    [ Label |-> r.OUTPUT_LABEL, TEXT |-> text, NEXT_CUI |-> r["CUI"] ]
    @@ [c \in StructuredColumns |-> r[c]]

\* lines 403-412 and 414-423: the appended row copies the admission's fields
ChunkRow(r, text) ==
    [ Label |-> r.OUTPUT_LABEL, TEXT |-> text ] @@ [c \in StructuredColumns |-> r[c]]

InitChunker ==
    /\ \E L \in 0..MaxTokens, lab \in {0, 1} :
          note = <<[ OUTPUT_LABEL |-> lab, TEXT |-> Tokens(L) ] @@ StructuredCells>>
    /\ x_tokens = <<>>
    /\ j_loop = 0
    /\ want = <<>>
    /\ pc_chunk = "row"
    /\ IdleLabeler /\ IdleF2i /\ IdleIcd /\ IdleMed /\ IdleFiles /\ IdleSplit /\ IdleRest

\* lines 400-401: x = TEXT.split(); the inner loop starts at j = 0
SplitText ==
    /\ pc_chunk = "row"
    /\ x_tokens' = note[1].TEXT
    /\ j_loop' = 0
    /\ pc_chunk' = "full"
    /\ UNCHANGED <<note, want>>
    /\ UNCHANGED notChunkVars

\* lines 402-412: one iteration of `for j in range(n)`
AppendFullChunk ==
    /\ pc_chunk = "full"
    /\ j_loop < NumFull(x_tokens)
    /\ want' = Append(want, ChunkRow(note[1], FullChunk(x_tokens, j_loop)))
    /\ j_loop' = j_loop + 1
    /\ UNCHANGED <<note, x_tokens, pc_chunk>>
    /\ UNCHANGED notChunkVars

\* lines 413-423: the loop is over and the remainder exceeds the threshold
AppendRemainder ==
    /\ pc_chunk = "full"
    /\ j_loop >= NumFull(x_tokens)
    /\ KeepRemainder(x_tokens)
    /\ want' = Append(want, ChunkRow(note[1], LastChunk(x_tokens)))
    /\ pc_chunk' = "done"
    /\ UNCHANGED <<note, x_tokens, j_loop>>
    /\ UNCHANGED notChunkVars

\* line 413, condition false: the remainder is dropped
DropRemainder ==
    /\ pc_chunk = "full"
    /\ j_loop >= NumFull(x_tokens)
    /\ ~KeepRemainder(x_tokens)
    /\ pc_chunk' = "done"
    /\ UNCHANGED <<note, x_tokens, j_loop, want>>
    /\ UNCHANGED notChunkVars

NextChunker ==
    \/ SplitText
    \/ AppendFullChunk
    \/ AppendRemainder
    \/ DropRemainder

SpecChunker == InitChunker /\ [][NextChunker]_vars


----------------------------------------------------------------------------
(* CodeVocabulary.build: featureToIdx, mimic_preprocess.py lines 33-43 *)

\* bound on the number of entries of `features`
MaxFeatures == 4

\* the codes the entries are drawn from; "0" is the padding sentinel of line 35
FeatureCodes == {"0", "D_250", "D_E850", "P_44"}

\* lines 38-42, the body of the loop for one entry: a key already present is
\* passed over, a new key takes idx and idx moves on
FeatureStepMutant(st, entry) ==
    [ feature2idx |-> (entry :> st.idx) @@ st.feature2idx, idx |-> st.idx + 1 ]

FeatureStep(st, entry) ==
    IF entry \in DOMAIN st.feature2idx THEN st
    ELSE [ feature2idx |-> (entry :> st.idx) @@ st.feature2idx, idx |-> st.idx + 1 ]

\* lines 34-36: the state before the loop
FeatureStart == [ feature2idx |-> ("0" :> 0), idx |-> 1 ]

\* the state of featureToIdx after the first n entries of fs
RECURSIVE FeatureFold(_, _)
FeatureFold(fs, n) ==
    IF n = 0 THEN FeatureStart ELSE FeatureStep(FeatureFold(fs, n - 1), fs[n])

\* the dictionary featureToIdx returns for the entries fs, in iteration order
featureToIdx(fs) == FeatureFold(fs, Len(fs)).feature2idx

\* lines 34-36: the call, with any entries
InitF2i ==
    /\ \E n \in 0..MaxFeatures : features \in [1..n -> FeatureCodes]
    /\ pos = 0
    /\ feature2idx = FeatureStart.feature2idx
    /\ idx = FeatureStart.idx
    /\ pc_f2i = "loop"
    /\ IdleLabeler /\ IdleChunker /\ IdleIcd /\ IdleMed /\ IdleFiles /\ IdleSplit /\ IdleRest

\* lines 37-42: one iteration of `for entry in features`
VisitEntry ==
    /\ pc_f2i = "loop"
    /\ pos < Len(features)
    /\ \E st \in {FeatureStep([feature2idx |-> feature2idx, idx |-> idx], features[pos + 1])} :
          /\ feature2idx' = st.feature2idx
          /\ idx' = st.idx
    /\ pos' = pos + 1
    /\ UNCHANGED <<features, pc_f2i>>
    /\ UNCHANGED notF2iVars

\* line 43
ReturnFeature2idx ==
    /\ pc_f2i = "loop"
    /\ pos = Len(features)
    /\ pc_f2i' = "returned"
    /\ UNCHANGED <<features, pos, feature2idx, idx>>
    /\ UNCHANGED notF2iVars

NextF2i ==
    \/ VisitEntry
    \/ ReturnFeature2idx

SpecF2i == InitF2i /\ [][NextF2i]_vars

----------------------------------------------------------------------------
(* ICDHierarchyReducer: getICDlevel1, mimic_preprocess.py lines 46-58 *)

\* bound on the number of characters after the P_ / D_ prefix
MaxCodeBody == 5

\* the characters of the part of a code after its prefix
CodeChars == {"E", "V", "0", "4"}

\* the codes named in the documentation of the reducer
NamedCodes == {"D_E8501", "D_25000", "P_4401"}

\* the string made of the characters cs, in order
RECURSIVE Concat(_)
Concat(cs) == IF cs = <<>> THEN "" ELSE Head(cs) \o Concat(Tail(cs))

\* str.startswith
StartsWith(str, prefix) ==
    Len(str) >= Len(prefix) /\ SubSeq(str, 1, Len(prefix)) = prefix

\* str[:n]: the first n characters, the whole string when it is shorter
Prefix(str, n) == SubSeq(str, 1, Min(n, Len(str)))

\* lines 52-58; a code that starts with neither P nor D falls off the end of
\* the function, which returns None
getICDlevel1Mutant(code) ==
    IF StartsWith(code, "P") THEN Some(Prefix(code, 4))
    ELSE IF StartsWith(code, "D") THEN Some(Prefix(code, 5))
    ELSE Missing

getICDlevel1(code) ==
    IF StartsWith(code, "P") THEN Some(Prefix(code, 4))
    ELSE IF StartsWith(code, "D")
         THEN IF StartsWith(code, "D_E") THEN Some(Prefix(code, 6))
              ELSE Some(Prefix(code, 5))
    ELSE Missing

InitIcd ==
    /\ \/ icd9_code \in NamedCodes
       \/ \E pre \in {"P_", "D_", ""}, n \in 0..MaxCodeBody :
            \E cs \in [1..n -> CodeChars] : icd9_code = pre \o Concat(cs)
    /\ smallICD = Missing
    /\ pc_icd = "called"
    /\ IdleLabeler /\ IdleChunker /\ IdleF2i /\ IdleMed /\ IdleFiles /\ IdleSplit /\ IdleRest

\* lines 52-58: the call returns
ReturnICDlevel1 ==
    /\ pc_icd = "called"
    /\ smallICD' = getICDlevel1(icd9_code)
    /\ pc_icd' = "returned"
    /\ UNCHANGED icd9_code
    /\ UNCHANGED notIcdVars

NextIcd == ReturnICDlevel1

SpecIcd == InitIcd /\ [][NextIcd]_vars

----------------------------------------------------------------------------
(* MedicationNormalizer: get_unique_ordered_medication, lines 177-219 *)

\* bound on the number of raw NDC values of one admission
MaxMeds == 5

\* the raw values of the NDC column: NaN (Missing) or an integer-valued float
MedValues == { Missing, Some(0), Some(123), Some(456), Some(789) }

\* the contents of ndc_cui_map.json the runs are given
NdcCuiTables ==
    << ("123" :> "C1") @@ ("456" :> "C2"),
       ("123" :> "C1") @@ ("456" :> "C1") @@ ("0" :> "C9") >>

\* str(d) for one decimal digit d
DigitStr(d) == SubSeq("0123456789", d + 1, d + 1)

\* str(int(value)) for a non-negative value: its decimal digits
RECURSIVE IntToStr(_)
IntToStr(n) == IF n < 10 THEN DigitStr(n) ELSE IntToStr(n \div 10) \o DigitStr(n % 10)

\* line 195: `value not in used_medications`; every NaN of the list is a float
\* object of its own and NaN != NaN, so a NaN is never found in the set
InUsed(value, used) == ~IsMissing(value) /\ value \in used

\* line 196: the condition under which the value is replaced by the sentinel 0
ReplacedBySentinelMutant(value, universe) ==
    IsMissing(value) \/ value[1] = 0

ReplacedBySentinel(value, universe) ==
    IsMissing(value) \/ value[1] = 0 \/ IntToStr(value[1]) \notin universe

\* lines 195-200: the value the rest of the loop body works with
ValueAfterCheck(value, used, universe) ==
    IF ~InUsed(value, used) /\ ReplacedBySentinel(value, universe) THEN Some(0) ELSE value

\* the elements of sequence q
Range(q) == { q[k] : k \in 1..Len(q) }

InitMed ==
    /\ \E t \in 1..Len(NdcCuiTables) : ndcCuiMap = NdcCuiTables[t]
    /\ \E n \in 0..MaxMeds : med_values \in [1..n -> MedValues]
    /\ med_pos = 0
    /\ used_medications = {}
    /\ unique_medication = <<>>
    /\ temp_cuis_list = <<>>
    /\ mapped = 0
    /\ unmapped = 0
    /\ pc_med = "loop"
    /\ IdleLabeler /\ IdleChunker /\ IdleF2i /\ IdleIcd /\ IdleFiles /\ IdleSplit /\ IdleRest

\* lines 194-210: the loop body for one value of the admission
HandleMedValue ==
    /\ pc_med = "loop"
    /\ med_pos < Len(med_values)
    /\ \E raw \in {med_values[med_pos + 1]} :
       \E value \in {ValueAfterCheck(raw, used_medications, DOMAIN ndcCuiMap)} :
          \* lines 195, 201: a value not seen before is recorded, and appended
          \* unless it is now the sentinel
          /\ used_medications' = used_medications \cup {raw}
          /\ unique_medication' =
                IF ~InUsed(raw, used_medications) /\ value[1] # 0
                THEN Append(unique_medication, IntToStr(value[1]))
                ELSE unique_medication
          \* lines 202-205
          /\ IF value[1] # 0 /\ IntToStr(value[1]) \in DOMAIN ndcCuiMap
             THEN mapped' = mapped + 1 /\ unmapped' = unmapped
             ELSE unmapped' = unmapped + 1 /\ mapped' = mapped
          \* lines 206-210
          /\ temp_cuis_list' =
                IF /\ IntToStr(value[1]) \in DOMAIN ndcCuiMap
                   /\ ndcCuiMap[IntToStr(value[1])] \notin Range(temp_cuis_list)
                THEN Append(temp_cuis_list, ndcCuiMap[IntToStr(value[1])])
                ELSE temp_cuis_list
    /\ med_pos' = med_pos + 1
    /\ UNCHANGED <<ndcCuiMap, med_values, pc_med>>
    /\ UNCHANGED notMedVars

\* lines 211-212: the lists of the admission are stored
StoreMedLists ==
    /\ pc_med = "loop"
    /\ med_pos = Len(med_values)
    /\ pc_med' = "stored"
    /\ UNCHANGED <<ndcCuiMap, med_values, med_pos, used_medications, unique_medication,
                   temp_cuis_list, mapped, unmapped>>
    /\ UNCHANGED notMedVars

NextMed ==
    \/ HandleMedValue
    \/ StoreMedLists

SpecMed == InitMed /\ [][NextMed]_vars

----------------------------------------------------------------------------
(* The vocabulary files: writeToJSON (lines 61-68) and the existence-guarded   *)
(* constructions of map_ICD9_to_CCS (lines 153-170) and                        *)
(* get_unique_ordered_medication (lines 213-216)                               *)

\* bound on the number of pipeline runs of one process
MaxRuns == 2

\* the five vocabulary files
VocabPaths ==
    { "smallIcd9ToIdx.json", "Icd9ToIdx.json", "CCSToIdx.json",
      "NDCToIdx.json", "cui_NDCToIdx.json" }

\* the guarded constructions of one run, in order: map_ICD9_to_CCS for the
\* diagnoses (line 266), again for the procedures (line 283), then
\* get_unique_ordered_medication (line 302)
VocabSteps ==
    << "smallIcd9ToIdx.json", "Icd9ToIdx.json", "CCSToIdx.json",
       "smallIcd9ToIdx.json", "Icd9ToIdx.json", "CCSToIdx.json",
       "NDCToIdx.json", "cui_NDCToIdx.json" >>

\* the reference tables a run may find: the keys of merged_icd_text.json, the
\* content of merged_icdccs_codes.json and of ndc_cui_map.json
ReferenceTables ==
    << [ icd9map       |-> {"D_25000", "P_4401"},
         icd9TOCCS_Map |-> ("D_25000" :> "49") @@ ("P_4401" :> "70 "),
         ndcCuiMap     |-> NdcCuiTables[1] ],
       [ icd9map       |-> {"D_25000", "D_25001", "D_E8501"},
         icd9TOCCS_Map |-> ("D_25000" :> "49") @@ ("D_E8501" :> " 2601"),
         ndcCuiMap     |-> NdcCuiTables[2] ] >>

\* str.strip(): the string without its leading and trailing blanks
RECURSIVE Strip(_)
Strip(str) ==
    IF Len(str) > 0 /\ SubSeq(str, 1, 1) = " " THEN Strip(SubSeq(str, 2, Len(str)))
    ELSE IF Len(str) > 0 /\ SubSeq(str, Len(str), Len(str)) = " "
         THEN Strip(SubSeq(str, 1, Len(str) - 1))
    ELSE str

\* the set of codes each vocabulary is built over (lines 154-156, 163, 166-168,
\* 180 and 213, 214)
VocabCodes(path, t) ==
    CASE path = "smallIcd9ToIdx.json" -> { getICDlevel1(c)[1] : c \in t.icd9map }
      [] path = "Icd9ToIdx.json"      -> t.icd9map
      [] path = "CCSToIdx.json"       ->
            { Strip(t.icd9TOCCS_Map[c]) : c \in DOMAIN t.icd9TOCCS_Map }
      [] path = "NDCToIdx.json"       -> DOMAIN t.ndcCuiMap
      [] path = "cui_NDCToIdx.json"   -> { t.ndcCuiMap[c] : c \in DOMAIN t.ndcCuiMap }

\* the orders in which a Python set of strings may be iterated
SetOrders(S) ==
    { q \in [1..Cardinality(S) -> S] : \A a, b \in 1..Cardinality(S) : a # b => q[a] # q[b] }

\* os.path.isfile
IsFile(fs, path) == ~IsMissing(fs[path])

\* the guards `if not os.path.isfile(...)` of lines 153, 162, 167, 215, 216:
\* the construction is passed over when the file exists
SkipsConstructionMutant(fs, path) == FALSE

SkipsConstruction(fs, path) == IsFile(fs, path)

\* lines 61-68: the content written to the path; the entries already in the
\* file replace those of `content` with the same key (content.update)
writeToJSONMutant(content, path, fs) ==
    [fs EXCEPT ![path] = Some(IF IsFile(fs, path) THEN content @@ fs[path][1] ELSE content)]

writeToJSON(content, path, fs) ==
    [fs EXCEPT ![path] = Some(IF IsFile(fs, path) THEN fs[path][1] @@ content ELSE content)]

\* the run moves on to its next guarded construction, or ends
NextStep(r) ==
    IF r.step < Len(VocabSteps)
    THEN [r EXCEPT !.step = r.step + 1, !.pc = "check"]
    ELSE [r EXCEPT !.step = 0, !.pc = "idle"]

\* the state with the processes ws, before any run, in an empty directory
InitFilesWith(ws) ==
    /\ files = [f \in VocabPaths |-> Missing]
    /\ file_writes = [f \in VocabPaths |-> 0]
    /\ writers = ws
    /\ runs = [p \in ws |-> [pc |-> "idle", step |-> 0, tables |-> 1, started |-> 0]]
    /\ IdleLabeler /\ IdleChunker /\ IdleF2i /\ IdleIcd /\ IdleMed /\ IdleSplit /\ IdleRest

\* a single writer
InitFiles == InitFilesWith({1})

\* a pipeline run starts and reads its reference tables
StartRun(p) ==
    /\ runs[p].pc = "idle"
    /\ runs[p].started < MaxRuns
    /\ \E t \in 1..Len(ReferenceTables) :
          runs' = [runs EXCEPT ![p] =
                    [pc |-> "check", step |-> 1, tables |-> t, started |-> @.started + 1]]
    /\ UNCHANGED <<files, file_writes, writers>>
    /\ UNCHANGED notFileVars

\* a guard finds the file and the construction is passed over
SkipExistingFile(p) ==
    /\ runs[p].pc = "check"
    /\ SkipsConstruction(files, VocabSteps[runs[p].step])
    /\ runs' = [runs EXCEPT ![p] = NextStep(@)]
    /\ UNCHANGED <<files, file_writes, writers>>
    /\ UNCHANGED notFileVars

\* a guard finds no file: the construction is entered
EnterConstruction(p) ==
    /\ runs[p].pc = "check"
    /\ ~SkipsConstruction(files, VocabSteps[runs[p].step])
    /\ runs' = [runs EXCEPT ![p].pc = "write"]
    /\ UNCHANGED <<files, file_writes, writers>>
    /\ UNCHANGED notFileVars

\* featureToIdx over the set of codes, then writeToJSON
BuildAndWrite(p) ==
    /\ runs[p].pc = "write"
    /\ \E path \in {VocabSteps[runs[p].step]} :
       \E order \in SetOrders(VocabCodes(path, ReferenceTables[runs[p].tables])) :
          /\ files' = writeToJSON(featureToIdx(order), path, files)
          /\ file_writes' = [file_writes EXCEPT ![path] = @ + 1]
    /\ runs' = [runs EXCEPT ![p] = NextStep(@)]
    /\ UNCHANGED writers
    /\ UNCHANGED notFileVars

NextFiles ==
    \/ \E p \in writers : StartRun(p)
    \/ \E p \in writers : SkipExistingFile(p)
    \/ \E p \in writers : EnterConstruction(p)
    \/ \E p \in writers : BuildAndWrite(p)

SpecFiles == InitFiles /\ [][NextFiles]_vars

----------------------------------------------------------------------------
(* SplitSampler: mimic_preprocess.py lines 439-465 *)

\* bounds: the number of readmitted admissions, and how many more
\* not-readmitted admissions than readmitted ones there may be
MaxReadmit == 8

MaxSurplus == 1

\* frac=0.2 of lines 443-444 and frac=0.5 of lines 449 and 452, as num/den
ValTestFrac == <<2, 10>>

ValFrac == <<5, 10>>

\* round() taking every tie upwards
RoundHalfUpMutant(a, b) ==
    LET q == a \div b
        r == a % b
    IN IF 2 * r < b THEN q ELSE q + 1

\* Python's round(a/b) for a >= 0, b > 0: to the nearest integer, a tie to the
\* even one
RoundHalfEven(a, b) ==
    LET q == a \div b
        r == a % b
    IN IF 2 * r < b THEN q
       ELSE IF 2 * r > b THEN q + 1
       ELSE IF q % 2 = 0 THEN q ELSE q + 1

\* Series.sample(frac=f): n = round(frac * len)
FracCount(frac, len) == RoundHalfEven(frac[1] * len, frac[2])

\* Series.sample(n=n) without replacement: the possible samples of the ids S
Samples(S, n) == { T \in SUBSET S : Cardinality(T) = n }

\* line 442: n=len(readmit_ID)
UseCountMutant(readmit, not_readmit) == Cardinality(not_readmit)

UseCount(readmit, not_readmit) == Cardinality(readmit)

\* Series.drop(sampled.index): the ids that were not sampled
DropMutant(S, sampled) == S

Drop(S, sampled) == S \ sampled

\* lines 459, 462, 465: zip(ids of class 1 then class 0, [1]*len + [0]*len)
IdLabel(ids_t, ids_f) ==
    { [id |-> i, label |-> 1] : i \in ids_t } \cup { [id |-> i, label |-> 0] : i \in ids_f }

\* lines 439-440: the labelled admissions, with unique HADM_IDs
\* the id column of a split: train_id_label.id of line 468
Ids(id_label) == { r.id : r \in id_label }

InitSplit ==
    /\ \E nR \in 0..MaxReadmit : \E nN \in 0..(nR + MaxSurplus) :
          /\ readmit_ID = 1..nR
          /\ not_readmit_ID = (nR + 1)..(nR + nN)
    /\ not_readmit_ID_use = {}
    /\ id_val_test_t = {} /\ id_val_test_f = {} /\ id_train_t = {} /\ id_train_f = {}
    /\ id_val_t = {} /\ id_test_t = {} /\ id_val_f = {} /\ id_test_f = {}
    /\ test_id_label = {} /\ val_id_label = {} /\ train_id_label = {}
    /\ pc_split = "pools"
    /\ IdleLabeler /\ IdleChunker /\ IdleF2i /\ IdleIcd /\ IdleMed /\ IdleFiles /\ IdleRest

\* line 442: the balanced not-readmitted pool
SampleNotReadmitUse ==
    /\ pc_split = "pools"
    /\ UseCount(readmit_ID, not_readmit_ID) <= Cardinality(not_readmit_ID)
    /\ not_readmit_ID_use' \in Samples(not_readmit_ID, UseCount(readmit_ID, not_readmit_ID))
    /\ pc_split' = "balanced"
    /\ UNCHANGED <<readmit_ID, not_readmit_ID, drawVars,
                   test_id_label, val_id_label, train_id_label>>
    /\ UNCHANGED notSplitVars

\* line 442: sample raises ValueError when n exceeds the population
AbortSampleTooLarge ==
    /\ pc_split = "pools"
    /\ UseCount(readmit_ID, not_readmit_ID) > Cardinality(not_readmit_ID)
    /\ pc_split' = "aborted"
    /\ UNCHANGED <<poolVars, drawVars, test_id_label, val_id_label, train_id_label>>
    /\ UNCHANGED notSplitVars

\* line 443
SampleValTestT ==
    /\ pc_split = "balanced"
    /\ id_val_test_t' \in Samples(readmit_ID, FracCount(ValTestFrac, Cardinality(readmit_ID)))
    /\ pc_split' = "valtest_t"
    /\ UNCHANGED <<poolVars, id_val_test_f, id_train_t, id_train_f,
                   id_val_t, id_test_t, id_val_f, id_test_f,
                   test_id_label, val_id_label, train_id_label>>
    /\ UNCHANGED notSplitVars

\* line 444
SampleValTestF ==
    /\ pc_split = "valtest_t"
    /\ id_val_test_f' \in Samples(not_readmit_ID_use,
                                 FracCount(ValTestFrac, Cardinality(not_readmit_ID_use)))
    /\ pc_split' = "valtest_f"
    /\ UNCHANGED <<poolVars, id_val_test_t, id_train_t, id_train_f,
                   id_val_t, id_test_t, id_val_f, id_test_f,
                   test_id_label, val_id_label, train_id_label>>
    /\ UNCHANGED notSplitVars

\* lines 446-447
DropTrain ==
    /\ pc_split = "valtest_f"
    /\ id_train_t' = Drop(readmit_ID, id_val_test_t)
    /\ id_train_f' = Drop(not_readmit_ID_use, id_val_test_f)
    /\ pc_split' = "train"
    /\ UNCHANGED <<poolVars, id_val_test_t, id_val_test_f,
                   id_val_t, id_test_t, id_val_f, id_test_f,
                   test_id_label, val_id_label, train_id_label>>
    /\ UNCHANGED notSplitVars

\* lines 449-450
SplitValTestT ==
    /\ pc_split = "train"
    /\ \E v \in Samples(id_val_test_t, FracCount(ValFrac, Cardinality(id_val_test_t))) :
          /\ id_val_t' = v
          /\ id_test_t' = Drop(id_val_test_t, v)
    /\ pc_split' = "split_t"
    /\ UNCHANGED <<poolVars, id_val_test_t, id_val_test_f, id_train_t, id_train_f,
                   id_val_f, id_test_f, test_id_label, val_id_label, train_id_label>>
    /\ UNCHANGED notSplitVars

\* lines 452-453
SplitValTestF ==
    /\ pc_split = "split_t"
    /\ \E v \in Samples(id_val_test_f, FracCount(ValFrac, Cardinality(id_val_test_f))) :
          /\ id_val_f' = v
          /\ id_test_f' = Drop(id_val_test_f, v)
    /\ pc_split' = "split_f"
    /\ UNCHANGED <<poolVars, id_val_test_t, id_val_test_f, id_train_t, id_train_f,
                   id_val_t, id_test_t, test_id_label, val_id_label, train_id_label>>
    /\ UNCHANGED notSplitVars

\* lines 458-465
ConcatSplits ==
    /\ pc_split = "split_f"
    /\ test_id_label' = IdLabel(id_test_t, id_test_f)
    /\ val_id_label' = IdLabel(id_val_t, id_val_f)
    /\ train_id_label' = IdLabel(id_train_t, id_train_f)
    /\ pc_split' = "split"
    /\ UNCHANGED <<poolVars, drawVars>>
    /\ UNCHANGED notSplitVars

NextSplit ==
    \/ SampleNotReadmitUse
    \/ AbortSampleTooLarge
    \/ SampleValTestT
    \/ SampleValTestF
    \/ DropTrain
    \/ SplitValTestT
    \/ SplitValTestF
    \/ ConcatSplits

SpecSplit == InitSplit /\ [][NextSplit]_vars

----------------------------------------------------------------------------
(* ClinicalCodeMapper: the per-admission loop of map_ICD9_to_CCS, lines 134-149 *)

\* bound on the number of codes of one admission
MaxIcd == 4

\* the codes of the ICD9_CODE lists, with the prefix of lines 263 and 280
IcdCodes == { "D_4280", "D_4281", "D_E8501", "P_4401" }

\* the contents of merged_icdccs_codes.json the runs are given
IcdCcsTables ==
    << ("D_4280" :> "108") @@ ("D_4281" :> "108") @@ ("P_4401" :> "70 "),
       ("D_4280" :> "108") >>

\* line 139: `if e not in list: list.append(e)`
AppendIfAbsent(list, e) == IF e \in Range(list) THEN list ELSE Append(list, e)

InitMapper ==
    /\ \E t \in 1..Len(IcdCcsTables) : icd9TOCCS_Map = IcdCcsTables[t]
    /\ \E n \in 0..MaxIcd : ICD9_CODE \in [1..n -> IcdCodes]
    /\ icd_pos = 0
    /\ tempSmallICDCodeList = <<>>
    /\ tempCCSCodeList = <<>>
    /\ mapped_icd = 0
    /\ unmapped_icd = 0
    /\ pc_map = "loop"
    /\ IdleLabeler /\ IdleChunker /\ IdleF2i /\ IdleIcd /\ IdleMed /\ IdleFiles /\ IdleSplit
    /\ IdleRun /\ IdleTwin /\ IdleEarly /\ IdleReserve /\ IdleRace

\* lines 137-147: the loop body for one code of the admission
HandleIcdCode ==
    /\ pc_map = "loop"
    /\ icd_pos < Len(ICD9_CODE)
    /\ \E ICD9 \in {ICD9_CODE[icd_pos + 1]} :
          \* lines 138-139
          /\ tempSmallICDCodeList' = AppendIfAbsent(tempSmallICDCodeList, getICDlevel1(ICD9))
          \* lines 140-147
          /\ IF ICD9 \in DOMAIN icd9TOCCS_Map
             THEN /\ tempCCSCodeList' = Append(tempCCSCodeList, icd9TOCCS_Map[ICD9])
                  /\ mapped_icd' = mapped_icd + 1
                  /\ unmapped_icd' = unmapped_icd
             ELSE /\ tempCCSCodeList' = tempCCSCodeList
                  /\ unmapped_icd' = unmapped_icd + 1
                  /\ mapped_icd' = mapped_icd
    /\ icd_pos' = icd_pos + 1
    /\ UNCHANGED <<ICD9_CODE, icd9TOCCS_Map, pc_map>>
    /\ UNCHANGED notMapVars

\* lines 148-149: the two lists of the admission are stored
StoreCodeLists ==
    /\ pc_map = "loop"
    /\ icd_pos = Len(ICD9_CODE)
    /\ pc_map' = "stored"
    /\ UNCHANGED <<ICD9_CODE, icd_pos, tempSmallICDCodeList, tempCCSCodeList, icd9TOCCS_Map,
                   mapped_icd, unmapped_icd>>
    /\ UNCHANGED notMapVars

NextMapper ==
    \/ HandleIcdCode
    \/ StoreCodeLists

SpecMapper == InitMapper /\ [][NextMapper]_vars

----------------------------------------------------------------------------
(* The input and output statements of a pipeline run, in program order       *)
(* (mimic_preprocess.py lines 223-542), and the output-directory check of    *)
(* the training script (run_readmission-original.py lines 242-244)           *)

\* the files a run reads
InputFiles ==
    { "ADMISSIONS.csv.gz", "DIAGNOSES_ICD.csv.gz", "PROCEDURES_ICD.csv.gz",
      "PRESCRIPTIONS.csv.gz", "NOTEEVENTS.csv.gz",
      "merged_icdccs_codes.json", "merged_icd_text.json", "ndc_cui_map.json" }

\* the directories of ../data/extended the dataset files are written to
OutputDirs == { "discharge", "3days", "2days" }

ReadStep(f) == [op |-> "read", file |-> f, dir |-> ""]

VocabStep(f) == [op |-> "vocab", file |-> f, dir |-> ""]

\* DataFrame.to_csv('../data/extended/<d>/<f>.csv')
CsvStep(d, f) == [op |-> "csv", file |-> d \o "/" \o f \o ".csv", dir |-> d]

\* one call of map_ICD9_to_CCS: lines 128, 150, 153-170
MapCallSteps ==
    << ReadStep("merged_icdccs_codes.json"), ReadStep("merged_icd_text.json"),
       VocabStep("smallIcd9ToIdx.json"), VocabStep("Icd9ToIdx.json"),
       VocabStep("CCSToIdx.json") >>

\* lines 223-316: the tables are read and the vocabularies are built
LoadSteps ==
    << ReadStep("ADMISSIONS.csv.gz"), ReadStep("DIAGNOSES_ICD.csv.gz") >>
    \o MapCallSteps
    \o << ReadStep("PROCEDURES_ICD.csv.gz") >>
    \o MapCallSteps
    \o << ReadStep("PRESCRIPTIONS.csv.gz"), ReadStep("ndc_cui_map.json"),
          VocabStep("NDCToIdx.json"), VocabStep("cui_NDCToIdx.json"),
          ReadStep("NOTEEVENTS.csv.gz") >>

\* lines 495-542: the dataset files, in the order they are written
CsvStepsMutant ==
    << CsvStep("discharge", "train"), CsvStep("discharge", "val"), CsvStep("discharge", "test"),
       CsvStep("3days", "train"), CsvStep("3days", "val"), CsvStep("3days", "test") >>

CsvSteps ==
    << CsvStep("discharge", "train"), CsvStep("discharge", "val"), CsvStep("discharge", "test"),
       CsvStep("3days", "train"), CsvStep("3days", "val"), CsvStep("3days", "test"),
       CsvStep("2days", "test") >>

RunSteps == LoadSteps \o CsvSteps

\* the vocabulary files in the order a run writes them
VocabOrder ==
    << "smallIcd9ToIdx.json", "Icd9ToIdx.json", "CCSToIdx.json",
       "NDCToIdx.json", "cui_NDCToIdx.json" >>

\* the vocabulary files earlier runs may have left: those written up to the
\* point where the run ended
VocabLeft == { { VocabOrder[k] : k \in 1..n } : n \in 0..Len(VocabOrder) }

\* the statement the run is at
CurrentStep == RunSteps[step_run]

InitRun ==
    /\ inputs_present \in SUBSET InputFiles
    /\ dirs_present \in SUBSET OutputDirs
    /\ vocab_present \in VocabLeft
    /\ written = <<>>
    /\ step_run = 1
    /\ pc_run = "running"
    /\ output_dir \in {"absent", "empty", "nonempty"}
    /\ pc_main = "start"
    /\ IdleLabeler /\ IdleChunker /\ IdleF2i /\ IdleIcd /\ IdleMed /\ IdleFiles /\ IdleSplit
    /\ IdleMapper /\ IdleTwin /\ IdleEarly /\ IdleReserve /\ IdleRace

\* the run goes on to its next statement, or has completed
Advance ==
    /\ step_run' = step_run + 1
    /\ pc_run' = IF step_run = Len(RunSteps) THEN "done" ELSE "running"

\* pd.read_csv / open(..., 'r') of a file that exists
ReadInput ==
    /\ pc_run = "running"
    /\ CurrentStep.op = "read"
    /\ CurrentStep.file \in inputs_present
    /\ Advance
    /\ UNCHANGED <<inputs_present, dirs_present, vocab_present, written, output_dir, pc_main>>
    /\ UNCHANGED notRunVars

\* pd.read_csv / open(..., 'r') of a file that does not exist raises
\* FileNotFoundError, which nothing catches
AbortMissingInput ==
    /\ pc_run = "running"
    /\ CurrentStep.op = "read"
    /\ CurrentStep.file \notin inputs_present
    /\ pc_run' = "aborted"
    /\ UNCHANGED <<inputs_present, dirs_present, vocab_present, written, step_run,
                   output_dir, pc_main>>
    /\ UNCHANGED notRunVars

\* lines 153, 162, 167, 215, 216: the vocabulary file exists
SkipVocabulary ==
    /\ pc_run = "running"
    /\ CurrentStep.op = "vocab"
    /\ CurrentStep.file \in vocab_present
    /\ Advance
    /\ UNCHANGED <<inputs_present, dirs_present, vocab_present, written, output_dir, pc_main>>
    /\ UNCHANGED notRunVars

\* lines 153-170, 215, 216: the vocabulary file does not exist and is written
WriteVocabulary ==
    /\ pc_run = "running"
    /\ CurrentStep.op = "vocab"
    /\ CurrentStep.file \notin vocab_present
    /\ vocab_present' = vocab_present \cup {CurrentStep.file}
    /\ written' = Append(written, CurrentStep.file)
    /\ Advance
    /\ UNCHANGED <<inputs_present, dirs_present, output_dir, pc_main>>
    /\ UNCHANGED notRunVars

\* to_csv into a directory that exists
WriteCsv ==
    /\ pc_run = "running"
    /\ CurrentStep.op = "csv"
    /\ CurrentStep.dir \in dirs_present
    /\ written' = Append(written, CurrentStep.file)
    /\ Advance
    /\ UNCHANGED <<inputs_present, dirs_present, vocab_present, output_dir, pc_main>>
    /\ UNCHANGED notRunVars

\* to_csv into a directory that does not exist raises, which nothing catches
AbortMissingDirectory ==
    /\ pc_run = "running"
    /\ CurrentStep.op = "csv"
    /\ CurrentStep.dir \notin dirs_present
    /\ pc_run' = "aborted"
    /\ UNCHANGED <<inputs_present, dirs_present, vocab_present, written, step_run,
                   output_dir, pc_main>>
    /\ UNCHANGED notRunVars

\* run_readmission-original.py lines 242-243: the output directory exists and
\* is not empty
MainRejectOutputDir ==
    /\ pc_main = "start"
    /\ output_dir = "nonempty"
    /\ pc_main' = "aborted"
    /\ UNCHANGED <<inputs_present, dirs_present, vocab_present, written, step_run, pc_run,
                   output_dir>>
    /\ UNCHANGED notRunVars

\* run_readmission-original.py line 244: os.makedirs(..., exist_ok=True)
MainMakeOutputDir ==
    /\ pc_main = "start"
    /\ output_dir # "nonempty"
    /\ output_dir' = "empty"
    /\ pc_main' = "created"
    /\ UNCHANGED <<inputs_present, dirs_present, vocab_present, written, step_run, pc_run>>
    /\ UNCHANGED notRunVars

NextRun ==
    \/ ReadInput
    \/ AbortMissingInput
    \/ SkipVocabulary
    \/ WriteVocabulary
    \/ WriteCsv
    \/ AbortMissingDirectory
    \/ MainRejectOutputDir
    \/ MainMakeOutputDir

SpecRun == InitRun /\ [][NextRun]_vars

----------------------------------------------------------------------------
(* CodeVocabulary.persist: calls of writeToJSON (lines 61-68) on files that  *)
(* may already exist                                                         *)

\* bound on the number of calls for one path
MaxPersist == 2

\* the paths the calls are made for
PersistPaths == { "Icd9ToIdx.json", "CCSToIdx.json" }

\* the codes and indices of the dictionaries the calls are given
PersistCodes == { "0", "D_4280", "P_4401" }

PersistIndices == 1..2

\* the dictionaries `content`: any codes with any indices
PersistContents == UNION { [ks -> PersistIndices] : ks \in SUBSET PersistCodes }

InitPersist ==
    /\ files = [f \in VocabPaths |-> Missing]
    /\ file_writes = [f \in VocabPaths |-> 0]
    /\ writers = {}
    /\ runs = <<>>
    /\ IdleLabeler /\ IdleChunker /\ IdleF2i /\ IdleIcd /\ IdleMed /\ IdleSplit /\ IdleRest

\* one call writeToJSON(content, filepath)
PersistVocabulary ==
    /\ \E path \in PersistPaths : \E content \in PersistContents :
          /\ file_writes[path] < MaxPersist
          /\ files' = writeToJSON(content, path, files)
          /\ file_writes' = [file_writes EXCEPT ![path] = @ + 1]
    /\ UNCHANGED <<writers, runs>>
    /\ UNCHANGED notFileVars

NextPersist == PersistVocabulary

SpecPersist == InitPersist /\ [][NextPersist]_vars

----------------------------------------------------------------------------
(* Two pipeline runs that build the same vocabulary file from the same       *)
(* reference tables, each in a directory without vocabulary files            *)
(* (lines 153-170 and 213-216)                                               *)

\* the two runs
TwinRuns == {1, 2}

InitTwin ==
    /\ run_tables \in 1..Len(ReferenceTables)
    /\ run_path \in VocabPaths
    /\ run_vocab = [r \in TwinRuns |-> Missing]
    /\ IdleLabeler /\ IdleChunker /\ IdleF2i /\ IdleIcd /\ IdleMed /\ IdleFiles /\ IdleSplit
    /\ IdleMapper /\ IdleRun /\ IdleEarly /\ IdleReserve /\ IdleRace

\* run r finds no file, calls featureToIdx over the set of codes, which it
\* iterates in the order of its own process, and writes the file; run_vocab[r]
\* is the content of the file
BuildVocabulary(r) ==
    /\ IsMissing(run_vocab[r])
    /\ \E fs \in {[f \in VocabPaths |-> Missing]} :
       \E order \in SetOrders(VocabCodes(run_path, ReferenceTables[run_tables])) :
          /\ ~SkipsConstruction(fs, run_path)
          /\ run_vocab' = [run_vocab EXCEPT ![r] = writeToJSON(featureToIdx(order), run_path, fs)[run_path]]
    /\ UNCHANGED <<run_tables, run_path>>
    /\ UNCHANGED notTwinVars

NextTwin == \E r \in TwinRuns : BuildVocabulary(r)

SpecTwin == InitTwin /\ [][NextTwin]_vars

----------------------------------------------------------------------------
(* The early-notes val and test selections, lines 520-542 *)

\* bound on the number of admissions
MaxEarly == 2

\* DURATION in days; missing when a time failed to parse
EarlyDurations == { Missing, Some(1), Some(2), Some(3), Some(4) }

\* per admission: its DURATION, the split it was drawn into, and whether it has
\* notes charted in the first 2 days, in the first 3 days only, or neither
EarlyProfiles ==
    [ duration : EarlyDurations, part : {"train", "val", "test"},
      notes : {"none", "3days", "2days"} ]

\* the id and label rows of the admissions k of 1..n that ps puts in the part
PartIdLabel(n, ps, part) ==
    { [id |-> 100 + k, label |-> k % 2] : k \in { a \in 1..n : ps[a].part = part } }

\* df_adm[df_adm['DURATION'] >= n].HADM_ID; a comparison with NaN is False
ActionableIdsMutant(df, n) == { df[i].HADM_ID : i \in 1..Len(df) }

ActionableIds(df, n) ==
    { df[i].HADM_ID : i \in { k \in 1..Len(df) :
                                ~IsMissing(df[k].DURATION) /\ df[k].DURATION[1] >= n } }

\* df_less_n[df_less_n.HADM_ID.isin(ids)]: the admissions of df_less_n among ids
SelectByIds(df_less_n, ids) == df_less_n \cap ids

InitEarly ==
    /\ \E n \in 0..MaxEarly : \E ps \in [1..n -> EarlyProfiles] :
          /\ df_adm = [k \in 1..n |-> [HADM_ID |-> 100 + k, DURATION |-> ps[k].duration]]
          /\ train_id_label = PartIdLabel(n, ps, "train")
          /\ val_id_label = PartIdLabel(n, ps, "val")
          /\ test_id_label = PartIdLabel(n, ps, "test")
          /\ df_less_3 = { 100 + k : k \in { a \in 1..n : ps[a].notes # "none" } }
          /\ df_less_2 = { 100 + k : k \in { a \in 1..n : ps[a].notes = "2days" } }
    /\ pc_adm = "idle"
    /\ readmit_ID = {} /\ not_readmit_ID = {} /\ not_readmit_ID_use = {}
    /\ id_val_test_t = {} /\ id_val_test_f = {} /\ id_train_t = {} /\ id_train_f = {}
    /\ id_val_t = {} /\ id_test_t = {} /\ id_val_f = {} /\ id_test_f = {}
    /\ pc_split = "split"
    /\ early_val = {} /\ early_test = {} /\ early_test_2days = {}
    /\ pc_early = "start"
    /\ IdleChunker /\ IdleF2i /\ IdleIcd /\ IdleMed /\ IdleFiles
    /\ IdleMapper /\ IdleRun /\ IdleTwin /\ IdleReserve /\ IdleRace

\* line 520
SelectEarlyVal ==
    /\ pc_early = "start"
    /\ early_val' = SelectByIds(df_less_3, { r.id : r \in val_id_label })
    /\ pc_early' = "val"
    /\ UNCHANGED <<df_less_3, df_less_2, early_test, early_test_2days>>
    /\ UNCHANGED notEarlyVars

\* lines 526-528
SelectEarlyTest ==
    /\ pc_early = "val"
    /\ \E test_actionable_id_label \in
            {{ r \in test_id_label : r.id \in ActionableIds(df_adm, 3) }} :
          early_test' = SelectByIds(df_less_3, { r.id : r \in test_actionable_id_label })
    /\ pc_early' = "test"
    /\ UNCHANGED <<df_less_3, df_less_2, early_val, early_test_2days>>
    /\ UNCHANGED notEarlyVars

\* lines 535-539
SelectEarlyTest2days ==
    /\ pc_early = "test"
    /\ \E test_actionable_id_label_2days \in
            {{ r \in test_id_label : r.id \in ActionableIds(df_adm, 2) }} :
          early_test_2days' =
              SelectByIds(df_less_2, { r.id : r \in test_actionable_id_label_2days })
    /\ pc_early' = "test_2days"
    /\ UNCHANGED <<df_less_3, df_less_2, early_val, early_test>>
    /\ UNCHANGED notEarlyVars

NextEarly ==
    \/ SelectEarlyVal
    \/ SelectEarlyTest
    \/ SelectEarlyTest2days

SpecEarly == InitEarly /\ [][NextEarly]_vars

----------------------------------------------------------------------------
(***************************************************************************)
(* The reserve of not-readmitted admissions: lines 478-542                 *)
(*                                                                         *)
(* After the split the script tops the two training sets up with           *)
(* not-readmitted admissions that the balanced pool left out, and writes   *)
(* the seven dataset files.  The draws of lines 484 and 513 take n=400 and *)
(* n=500 ids; the model scales both to the size of its pools.              *)
(***************************************************************************)

\* the pools of a run that goes on to the reserve draws
MaxReserveReadmit == 3

MaxReserveSurplus == 4

\* n of line 484 (400 in the script)
DischargeDraw == 2

\* n of line 513 (500 in the script)
EarlyDraw == 3

\* drop_duplicates() keeping the first of equal ids
DropDuplicatesKeepFirstMutant(a, b) == a \cup b

\* pd.concat([a, b]).drop_duplicates(keep=False) of two series of distinct
\* ids: the ids that occur once
DropDuplicatesKeepFalse(a, b) == (a \ b) \cup (b \ a)

\* the dataset files, in the order of lines 495-542
CsvFiles == [k \in 1..Len(CsvSteps) |-> CsvSteps[k].file]

\* as many files again as were written before line 513, and one more
CsvBeforeEarlyDrawMutant == SubSeq(CsvFiles, 1, 4)

\* lines 495-502: the files written before the draw of line 513
CsvBeforeEarlyDraw == SubSeq(CsvFiles, 1, 3)

\* lines 517-542: the files written after it
CsvAfterEarlyDraw == SubSeq(CsvFiles, Len(CsvBeforeEarlyDraw) + 1, Len(CsvFiles))

InitReserve ==
    /\ \E nR \in 0..MaxReserveReadmit : \E nN \in 0..(nR + MaxReserveSurplus) :
          /\ readmit_ID = 1..nR
          /\ not_readmit_ID = (nR + 1)..(nR + nN)
    /\ not_readmit_ID_use = {}
    /\ id_val_test_t = {} /\ id_val_test_f = {} /\ id_train_t = {} /\ id_train_f = {}
    /\ id_val_t = {} /\ id_test_t = {} /\ id_val_f = {} /\ id_test_f = {}
    /\ test_id_label = {} /\ val_id_label = {} /\ train_id_label = {}
    /\ pc_split = "pools"
    /\ reserve_df = {} /\ not_readmit_ID_more = {} /\ discharge_train_ids = {}
    /\ early_train_ids = {} /\ csv_out = <<>> /\ pc_reserve = "split"
    /\ IdleLabeler /\ IdleChunker /\ IdleF2i /\ IdleIcd /\ IdleMed /\ IdleFiles
    /\ IdleMapper /\ IdleRun /\ IdleTwin /\ IdleEarly /\ IdleRace

\* lines 478-479
BuildReserve ==
    /\ pc_split = "split" /\ pc_reserve = "split"
    /\ reserve_df' = DropDuplicatesKeepFalse(not_readmit_ID_use, not_readmit_ID)
    /\ pc_reserve' = "reserve"
    /\ UNCHANGED <<not_readmit_ID_more, discharge_train_ids, early_train_ids, csv_out>>
    /\ UNCHANGED notReserveVars

\* lines 484-485: 400 more not-readmitted admissions for discharge training
DrawDischargeReserve ==
    /\ pc_reserve = "reserve"
    /\ DischargeDraw <= Cardinality(reserve_df)
    /\ \E more \in Samples(reserve_df, DischargeDraw) :
          /\ not_readmit_ID_more' = more
          /\ discharge_train_ids' = more \cup Ids(train_id_label)
    /\ pc_reserve' = "discharge_train"
    /\ UNCHANGED <<reserve_df, early_train_ids, csv_out>>
    /\ UNCHANGED notReserveVars

\* line 484: sample raises ValueError when the reserve has fewer than n ids
AbortDischargeDraw ==
    /\ pc_reserve = "reserve"
    /\ DischargeDraw > Cardinality(reserve_df)
    /\ pc_reserve' = "aborted_discharge"
    /\ UNCHANGED <<reserve_df, not_readmit_ID_more, discharge_train_ids, early_train_ids,
                   csv_out>>
    /\ UNCHANGED notReserveVars

\* lines 495-502
WriteDischargeCsv ==
    /\ pc_reserve = "discharge_train"
    /\ csv_out' = csv_out \o CsvBeforeEarlyDraw
    /\ pc_reserve' = "discharge_written"
    /\ UNCHANGED <<reserve_df, not_readmit_ID_more, discharge_train_ids, early_train_ids>>
    /\ UNCHANGED notReserveVars

\* lines 512-514: 500 more not-readmitted admissions for 3-day training
DrawEarlyReserve ==
    /\ pc_reserve = "discharge_written"
    /\ EarlyDraw <= Cardinality(reserve_df)
    /\ \E more \in Samples(reserve_df, EarlyDraw) :
          /\ not_readmit_ID_more' = more
          /\ early_train_ids' = more \cup Ids(train_id_label)
    /\ pc_reserve' = "early_train"
    /\ UNCHANGED <<reserve_df, discharge_train_ids, csv_out>>
    /\ UNCHANGED notReserveVars

\* line 513: sample raises ValueError when the reserve has fewer than n ids
AbortEarlyDraw ==
    /\ pc_reserve = "discharge_written"
    /\ EarlyDraw > Cardinality(reserve_df)
    /\ pc_reserve' = "aborted_early"
    /\ UNCHANGED <<reserve_df, not_readmit_ID_more, discharge_train_ids, early_train_ids,
                   csv_out>>
    /\ UNCHANGED notReserveVars

\* lines 517-542
WriteEarlyCsv ==
    /\ pc_reserve = "early_train"
    /\ csv_out' = csv_out \o CsvAfterEarlyDraw
    /\ pc_reserve' = "done"
    /\ UNCHANGED <<reserve_df, not_readmit_ID_more, discharge_train_ids, early_train_ids>>
    /\ UNCHANGED notReserveVars

NextReserve ==
    \/ NextSplit
    \/ BuildReserve
    \/ DrawDischargeReserve
    \/ AbortDischargeDraw
    \/ WriteDischargeCsv
    \/ DrawEarlyReserve
    \/ AbortEarlyDraw
    \/ WriteEarlyCsv

SpecReserve == InitReserve /\ [][NextReserve]_vars

----------------------------------------------------------------------------
(***************************************************************************)
(* Two pipeline processes on one data directory                            *)
(*                                                                         *)
(* The guard of a construction (lines 153, 162, 167, 215, 216), the test   *)
(* of writeToJSON (line 62) and its dump (lines 67-68) are separate file   *)
(* system calls: another process may run between any two of them.          *)
(***************************************************************************)

\* the sets of processes that may run the pipeline on the directory
WriterSets == { {1}, {1, 2} }

\* the processes read the reference tables of the one directory they share
InitRace ==
    /\ files = [f \in VocabPaths |-> Missing]
    /\ file_writes = [f \in VocabPaths |-> 0]
    /\ writers \in WriterSets
    /\ \E t \in 1..Len(ReferenceTables) :
          runs = [p \in writers |-> [pc |-> "idle", step |-> 0, tables |-> t, started |-> 0]]
    /\ pending = <<>>
    /\ IdleLabeler /\ IdleChunker /\ IdleF2i /\ IdleIcd /\ IdleMed /\ IdleSplit
    /\ IdleMapper /\ IdleRun /\ IdleTwin /\ IdleEarly /\ IdleReserve

\* a process starts the pipeline; it executes the script once
StartRaceRun(p) ==
    /\ runs[p].pc = "idle"
    /\ runs[p].started = 0
    /\ runs' = [runs EXCEPT ![p].pc = "check", ![p].step = 1, ![p].started = @ + 1]
    /\ UNCHANGED <<files, file_writes, writers>>
    /\ UNCHANGED notFileVars

\* lines 62-65: the content a process is about to dump; the entries it finds
\* in the file at this moment replace its own
MergedContent(content, path, fs) == writeToJSON(content, path, fs)[path][1]

\* featureToIdx over the set of codes, then lines 62-65 of writeToJSON
BuildAndTest(p) ==
    /\ runs[p].pc = "write"
    /\ \E path \in {VocabSteps[runs[p].step]} :
       \E order \in SetOrders(VocabCodes(path, ReferenceTables[runs[p].tables])) :
          pending' = (p :> [path |-> path,
                            content |-> MergedContent(featureToIdx(order), path, files)])
                     @@ pending
    /\ runs' = [runs EXCEPT ![p].pc = "dump"]
    /\ UNCHANGED <<files, file_writes, writers>>
    /\ UNCHANGED notRaceVars

\* lines 67-68: open(filepath, 'w') and json.dump
Dump(p) ==
    /\ runs[p].pc = "dump"
    /\ files' = [files EXCEPT ![pending[p].path] = Some(pending[p].content)]
    /\ file_writes' = [file_writes EXCEPT ![pending[p].path] = @ + 1]
    /\ runs' = [runs EXCEPT ![p] = NextStep(@)]
    /\ UNCHANGED <<writers, pending>>
    /\ UNCHANGED notRaceVars

NextRace ==
    \/ \E p \in writers : StartRaceRun(p)
    \/ \E p \in writers : SkipExistingFile(p)
    \/ \E p \in writers : EnterConstruction(p)
    \/ \E p \in writers : BuildAndTest(p)
    \/ \E p \in writers : Dump(p)

SpecRace == InitRace /\ [][NextRace]_vars

----------------------------------------------------------------------------
(***************************************************************************)
(* Reading the admission timestamps: lines 223-226                         *)
(*                                                                         *)
(* A cell of ADMISSIONS.csv is text.  A raw cell is modelled by whether    *)
(* the text has the format '%Y-%m-%d %H:%M:%S' and, if so, the day it      *)
(* names; an empty cell does not have the format.                          *)
(***************************************************************************)

\* rows of the tables whose timestamps are read
MaxParseAdm == 2

\* which timestamp of a row is malformed in the file
Malformed == {"none", "ADMITTIME", "DISCHTIME"}

RawCell(ok, day) == [well_formed |-> ok, day |-> day]

\* pd.to_datetime(cell, format='%Y-%m-%d %H:%M:%S', errors='coerce')
to_datetime(cell) == IF cell.well_formed THEN Some(cell.day) ELSE Missing

\* a row of ADMISSIONS.csv as read by line 223
FileRow(k, subj, p, bad) ==
    [ SUBJECT_ID     |-> subj,
      HADM_ID        |-> 100 + k,
      ADMITTIME      |-> RawCell(bad # "ADMITTIME", AdmitGrid(k)),
      DISCHTIME      |-> RawCell(bad # "DISCHTIME", AdmitGrid(k) + p.stay),
      DEATHTIME      |-> RawCell(p.dead, AdmitGrid(k) + p.stay),
      ADMISSION_TYPE |-> Some(p.type) ]

InitParse ==
    /\ \E n \in 0..MaxParseAdm :
         \E ps \in [1..n -> RowProfiles], bad \in [1..n -> Malformed],
            cut \in (IF n = 0 THEN {0} ELSE 1..n) :
            df_adm = Reverse([k \in 1..n |->
                                FileRow(k, IF k <= cut THEN 1 ELSE 2, ps[k], bad[k])])
    /\ pc_adm = "read"
    /\ IdleChunker /\ IdleF2i /\ IdleIcd /\ IdleMed /\ IdleFiles /\ IdleSplit /\ IdleRest

\* lines 224-226
CoerceTimestamps ==
    /\ pc_adm = "read"
    /\ df_adm' = [i \in 1..Len(df_adm) |->
            WithCols(df_adm[i],
                [ ADMITTIME |-> to_datetime(df_adm[i].ADMITTIME),
                  DISCHTIME |-> to_datetime(df_adm[i].DISCHTIME),
                  DEATHTIME |-> to_datetime(df_adm[i].DEATHTIME) ])]
    /\ pc_adm' = "loaded"
    /\ UNCHANGED notLabelVars

NextParse ==
    \/ CoerceTimestamps
    \/ NextLabeler

SpecParse == InitParse /\ [][NextParse]_vars

----------------------------------------------------------------------------
(***************************************************************************)
(* The code lists of the next admission: lines 259-314                     *)
(*                                                                         *)
(* The listings of diagnoses, procedures and medications are merged into   *)
(* the filtered admission table on HADM_ID, and five columns are shifted   *)
(* within the patient.  A code list is modelled by the column and the      *)
(* admission it was built for.                                             *)
(***************************************************************************)

\* rows of the tables whose code lists are shifted
MaxNextAdm == 3

\* the list columns that lines 310-314 shift
ListColumns == {"SMALL_DIAG_ICD9", "DIAG_CCS", "SMALL_PROC_ICD9", "PROC_CCS", "CUI"}

\* the admissions that have a row in the listing a column comes from:
\* every admission has diagnoses, some have no procedures, some no medication
InListing(col, hadm_id) ==
    CASE col \in {"SMALL_DIAG_ICD9", "DIAG_CCS"} -> TRUE
      [] col \in {"SMALL_PROC_ICD9", "PROC_CCS"} -> hadm_id % 2 = 1
      [] col = "CUI" -> hadm_id % 3 # 0

\* pd.merge(df_adm, listing, on=['HADM_ID'], how='left'): the list of the
\* admission, or a missing cell when the listing has no row for it
MergedList(col, hadm_id) ==
    IF InListing(col, hadm_id) THEN Some([column |-> col, hadm_id |-> hadm_id]) ELSE Missing

InitNext ==
    /\ \E n \in 0..MaxNextAdm :
         \E ps \in [1..n -> RowProfiles], cut \in (IF n = 0 THEN {0} ELSE 1..n) :
            df_adm = RawTable(n, ps, cut)
    /\ pc_adm = "loaded"
    /\ IdleChunker /\ IdleF2i /\ IdleIcd /\ IdleMed /\ IdleFiles /\ IdleSplit /\ IdleRest

\* lines 270-308: the three left merges
MergeCodeLists ==
    /\ pc_adm = "filtered"
    /\ df_adm' = [i \in 1..Len(df_adm) |->
            WithCols(df_adm[i], [c \in ListColumns |-> MergedList(c, df_adm[i].HADM_ID)])]
    /\ pc_adm' = "merged"
    /\ UNCHANGED notLabelVars

\* lines 310-314
ShiftNextLists ==
    /\ pc_adm = "merged"
    /\ df_adm' = [i \in 1..Len(df_adm) |->
            WithCols(df_adm[i],
                [ NEXT_SMALL_DIAG_ICD9 |-> ShiftNext(df_adm, "SMALL_DIAG_ICD9", i),
                  NEXT_DIAG_CCS        |-> ShiftNext(df_adm, "DIAG_CCS", i),
                  NEXT_SMALL_PROC_ICD9 |-> ShiftNext(df_adm, "SMALL_PROC_ICD9", i),
                  NEXT_PROC_CCS        |-> ShiftNext(df_adm, "PROC_CCS", i),
                  NEXT_CUI             |-> ShiftNext(df_adm, "CUI", i) ])]
    /\ pc_adm' = "next_lists"
    /\ UNCHANGED notLabelVars

NextNextLists ==
    \/ NextLabeler
    \/ MergeCodeLists
    \/ ShiftNextLists

SpecNextLists == InitNext /\ [][NextNextLists]_vars

----------------------------------------------------------------------------
(***************************************************************************)
(* Cleaning the text before it is cut: lines 385-390                       *)
(*                                                                         *)
(* A TEXT cell is missing (NaN) or holds a text, modelled by its words; a  *)
(* blank text has no words.                                                *)
(***************************************************************************)

\* fillna(' ') followed by split(): a missing cell becomes the blank text,
\* which has no words
CleanedTokens(cell) == IF IsMissing(cell) THEN Tokens(0) ELSE cell[1]

InitNotes ==
    /\ \E L \in 0..MaxTokens, lab \in {0, 1}, missing \in BOOLEAN :
          /\ missing => L = 0
          /\ note = <<[ OUTPUT_LABEL |-> lab,
                        TEXT |-> IF missing THEN Missing ELSE Some(Tokens(L)) ]
                      @@ StructuredCells>>
    /\ x_tokens = <<>>
    /\ j_loop = 0
    /\ want = <<>>
    /\ pc_chunk = "raw"
    /\ IdleLabeler /\ IdleF2i /\ IdleIcd /\ IdleMed /\ IdleFiles /\ IdleSplit /\ IdleRest

\* lines 386-390
CleanText ==
    /\ pc_chunk = "raw"
    /\ note' = <<[note[1] EXCEPT !.TEXT = CleanedTokens(@)]>>
    /\ pc_chunk' = "row"
    /\ UNCHANGED <<x_tokens, j_loop, want>>
    /\ UNCHANGED notChunkVars

NextNotes ==
    \/ CleanText
    \/ NextChunker

SpecNotes == InitNotes /\ [][NextNotes]_vars

----------------------------------------------------------------------------
(* Properties of the AdmissionLabeler *)

\* the later admissions of i's patient that are not ELECTIVE
LaterNonElective(df, i) ==
    { j \in LaterInGroup(df, i) : df[j].ADMISSION_TYPE # Some("ELECTIVE") }

\* C1: after the shift, the ELECTIVE nulling and the backward fill,
\* NEXT_ADMITTIME of admission i is the ADMITTIME of the first later admission
\* of the same patient that is not ELECTIVE, and is missing when there is none.
C1_NextAdmitSkipsElective ==
    pc_adm \in {"filled", "labelled"} =>
        \A i \in 1..Len(df_adm) :
            df_adm[i].NEXT_ADMITTIME =
                IF LaterNonElective(df_adm, i) = {} THEN Missing
                ELSE df_adm[SetMin(LaterNonElective(df_adm, i))].ADMITTIME

\* C1 witness: an admission followed by two ELECTIVE admissions and then a
\* non-ELECTIVE one of the same patient, whose admit time it has taken
C1_Witness ==
    /\ pc_adm = "filled"
    /\ \E i \in 1..Len(df_adm) :
          /\ i + 3 <= Len(df_adm)
          /\ \A j \in (i+1)..(i+3) : df_adm[j].SUBJECT_ID = df_adm[i].SUBJECT_ID
          /\ df_adm[i+1].ADMISSION_TYPE = Some("ELECTIVE")
          /\ df_adm[i+2].ADMISSION_TYPE = Some("ELECTIVE")
          /\ df_adm[i+3].ADMISSION_TYPE = Some("EMERGENCY")
          /\ df_adm[i].NEXT_ADMITTIME = df_adm[i+3].ADMITTIME

\* C2: OUTPUT_LABEL is 1 exactly when 0 <= DAYS_NEXT_ADMIT < 30, and 0 when
\* DAYS_NEXT_ADMIT is missing or negative.
C2_LabelIffWithinWindow ==
    pc_adm \in {"labelled", "filtered"} =>
        \A i \in 1..Len(df_adm) :
            (df_adm[i].OUTPUT_LABEL = 1) <=>
                /\ ~IsMissing(df_adm[i].DAYS_NEXT_ADMIT)
                /\ 0 <= df_adm[i].DAYS_NEXT_ADMIT[1]
                /\ df_adm[i].DAYS_NEXT_ADMIT[1] < LabelWindowDays

----------------------------------------------------------------------------
(* Properties of the NoteChunker *)

\* the tokens of the input text at positions a+1 .. a+len, read off the input
InputTokens(a, len) == [t \in 1..len |-> note[1].TEXT[a + t]]

\* the emitted rows whose chunk has exactly ChunkSize tokens
FullRows == { k \in 1..Len(want) : Len(want[k].TEXT) = ChunkSize }

\* C5: for a text of L tokens exactly L div 318 full chunks are emitted, and the
\* k-th of them (k = 0..n-1) is exactly the tokens [318k, 318(k+1)) of the input:
\* contiguous, non-overlapping, in the original order, 318 tokens each.
C5_FullChunksTileTheText ==
    pc_chunk = "done" =>
        /\ FullRows = 1..(Len(note[1].TEXT) \div 318)
        /\ \A k \in FullRows : want[k].TEXT = InputTokens(318 * (k - 1), 318)

\* C5 witness: a text of at least 636 tokens has been cut into two full chunks
C5_Witness ==
    /\ pc_chunk = "done"
    /\ Len(note[1].TEXT) >= 636
    /\ Len(want) >= 2
    /\ want[2].TEXT = InputTokens(318, 318)

\* C6: with r = L mod 318, one extra final chunk holding exactly the last r
\* tokens is emitted if and only if r > 10; otherwise the remainder is dropped.
\* 640 tokens give exactly 2 chunks, 650 tokens 2 full chunks and one of 14.
C6_RemainderIffOverTen ==
    pc_chunk = "done" =>
        LET L == Len(note[1].TEXT)
            n == L \div 318
            r == L % 318
        IN /\ r > 10 => /\ Len(want) = n + 1
                         /\ want[n + 1].TEXT = InputTokens(L - r, r)
           /\ r <= 10 => Len(want) = n
           /\ L = 640 => Len(want) = 2
           /\ L = 650 => Len(want) = 3 /\ Len(want[3].TEXT) = 14

\* C6 witness: 650 tokens have given two full chunks and a final one of 14
C6_Witness ==
    /\ pc_chunk = "done"
    /\ Len(note[1].TEXT) = 650
    /\ Len(want) = 3
    /\ Len(want[3].TEXT) = 14

----------------------------------------------------------------------------
(* Properties of featureToIdx *)

\* the position of the first occurrence of code c among the entries
FirstSeen(c) == SetMin({ k \in 1..Len(features) : features[k] = c })

\* the distinct codes of the input other than the sentinel
NonSentinel == { features[k] : k \in 1..Len(features) } \ {"0"}

\* C7: the result maps "0" to 0, every other distinct code to a distinct
\* index, and the indices of the non-sentinel codes are exactly 1..k, given in
\* first-seen order, k being the number of distinct codes other than "0".
C7_VocabularyIndices ==
    pc_f2i = "returned" =>
        /\ DOMAIN feature2idx = NonSentinel \cup {"0"}
        /\ feature2idx["0"] = 0
        /\ \A c, d \in NonSentinel : c # d => feature2idx[c] # feature2idx[d]
        /\ { feature2idx[c] : c \in NonSentinel } = 1..Cardinality(NonSentinel)
        /\ \A c, d \in NonSentinel :
              FirstSeen(c) < FirstSeen(d) => feature2idx[c] < feature2idx[d]

\* C7 witness: an input with a "0" and a repeated code, three distinct codes
C7_Witness ==
    /\ pc_f2i = "returned"
    /\ \E k \in 1..Len(features) : features[k] = "0"
    /\ \E k, l \in 1..Len(features) : k < l /\ features[k] = features[l] /\ features[k] # "0"
    /\ Cardinality(NonSentinel) = 2
    /\ \A c \in NonSentinel : feature2idx[c] \in 1..2

----------------------------------------------------------------------------
(* Properties of getICDlevel1 *)

\* the first n characters of the argument, character by character
FirstChars(n) == SubSeq(icd9_code, 1, IF Len(icd9_code) < n THEN Len(icd9_code) ELSE n)

\* C9: a P_ code reduces to its first 4 characters, a D_E code to its first 6,
\* any other D_ code to its first 5; D_E8501 -> D_E850, D_25000 -> D_250,
\* P_4401 -> P_44.
C9_HierarchyReduction ==
    pc_icd = "returned" =>
        /\ StartsWith(icd9_code, "P_") => smallICD = <<FirstChars(4)>>
        /\ StartsWith(icd9_code, "D_E") => smallICD = <<FirstChars(6)>>
        /\ (StartsWith(icd9_code, "D_") /\ ~StartsWith(icd9_code, "D_E")) =>
                smallICD = <<FirstChars(5)>>
        /\ icd9_code = "D_E8501" => smallICD = <<"D_E850">>
        /\ icd9_code = "D_25000" => smallICD = <<"D_250">>
        /\ icd9_code = "P_4401" => smallICD = <<"P_44">>

\* C9 witness: the E-code of the documentation has been reduced to 6 characters
C9_Witness ==
    /\ pc_icd = "returned"
    /\ icd9_code = "D_E8501"
    /\ smallICD = <<"D_E850">>

----------------------------------------------------------------------------
(* Properties of the MedicationNormalizer *)

\* the decimal string of each raw value of the model, written out
NdcString(n) ==
    CASE n = 0 -> "0" [] n = 123 -> "123" [] n = 456 -> "456" [] n = 789 -> "789"

\* the distinct raw values that are present, non-zero and in the NDC universe
ValidMeds ==
    { v \in Range(med_values) :
        ~IsMissing(v) /\ v[1] # 0 /\ NdcString(v[1]) \in DOMAIN ndcCuiMap }

FirstMedPos(v) == SetMin({ k \in 1..Len(med_values) : med_values[k] = v })

\* C10: the deduplicated medication list holds exactly the distinct input
\* values that are present, non-zero and whose integer string is in the NDC
\* universe, each once, as a string, in order of first occurrence, and never the
\* sentinel; [123, 123, 0, NaN, 456] with universe {"123","456"} gives
\* ["123","456"].
C10_DedupMedicationList ==
    pc_med = "stored" =>
        /\ Len(unique_medication) = Cardinality(ValidMeds)
        /\ \A v \in ValidMeds :
              \E k \in 1..Len(unique_medication) : unique_medication[k] = NdcString(v[1])
        /\ \A v, w \in ValidMeds :
              FirstMedPos(v) < FirstMedPos(w) =>
                \E k, l \in 1..Len(unique_medication) :
                    /\ k < l
                    /\ unique_medication[k] = NdcString(v[1])
                    /\ unique_medication[l] = NdcString(w[1])
        /\ "0" \notin Range(unique_medication)
        /\ ( /\ med_values = << <<123>>, <<123>>, <<0>>, <<>>, <<456>> >>
             /\ DOMAIN ndcCuiMap = {"123", "456"} )
              => unique_medication = <<"123", "456">>

\* C10 witness: the list of the documentation has been normalised
C10_Witness ==
    /\ pc_med = "stored"
    /\ med_values = << <<123>>, <<123>>, <<0>>, <<>>, <<456>> >>
    /\ DOMAIN ndcCuiMap = {"123", "456"}
    /\ unique_medication = <<"123", "456">>

----------------------------------------------------------------------------
(* Properties of the vocabulary files *)

\* C8: with a single writer, a vocabulary file that exists is left unchanged
\* by every step of every later construction (a second call in the same run or
\* a later run), and no vocabulary file is written more than once.
C8_ExistingVocabularyUntouched ==
    [][ \A f \in VocabPaths :
          /\ IsFile(files, f) => files'[f] = files[f]
          /\ file_writes'[f] <= 1 ]_vars

\* C8 witness: a second run, given other reference tables than the first, has
\* gone through all its guards and every file has been written exactly once
C8_Witness ==
    /\ writers = {1}
    /\ runs[1].started = 2
    /\ runs[1].pc = "idle"
    /\ runs[1].tables = 2
    /\ \A f \in VocabPaths : IsFile(files, f) /\ file_writes[f] = 1
    /\ DOMAIN files["Icd9ToIdx.json"][1] = {"0", "D_25000", "P_4401"}

----------------------------------------------------------------------------
(* Properties of the SplitSampler *)

\* the number of admissions of a split that carry label l
CountLabel(id_label, l) == Cardinality({ r \in id_label : r.label = l })

\* C3: the train, val and test admission-id sets are pairwise disjoint.
C3_SplitsDisjoint ==
    pc_split = "split" =>
        /\ Ids(train_id_label) \cap Ids(val_id_label) = {}
        /\ Ids(train_id_label) \cap Ids(test_id_label) = {}
        /\ Ids(val_id_label) \cap Ids(test_id_label) = {}

\* C3 witness: the three splits are all non-empty, in both classes
C3_Witness ==
    /\ pc_split = "split"
    /\ \A l \in {0, 1} :
          /\ CountLabel(train_id_label, l) > 0
          /\ CountLabel(val_id_label, l) > 0
          /\ CountLabel(test_id_label, l) > 0

\* C4: the not-readmitted pool used for splitting has exactly as many
\* admissions as the readmitted pool, and each of train, val and test holds as
\* many label-1 as label-0 admissions.
C4_BalancedPools ==
    /\ pc_split \notin {"idle", "pools", "aborted"} =>
            Cardinality(not_readmit_ID_use) = Cardinality(readmit_ID)
    /\ pc_split = "split" =>
            /\ CountLabel(train_id_label, 1) = CountLabel(train_id_label, 0)
            /\ CountLabel(val_id_label, 1) = CountLabel(val_id_label, 0)
            /\ CountLabel(test_id_label, 1) = CountLabel(test_id_label, 0)

\* C4 witness: there were more not-readmitted than readmitted admissions, and
\* the splits came out non-empty
C4_Witness ==
    /\ pc_split = "split"
    /\ Cardinality(not_readmit_ID) > Cardinality(readmit_ID)
    /\ CountLabel(val_id_label, 0) > 0
    /\ CountLabel(test_id_label, 0) > 0
    /\ not_readmit_ID_use # not_readmit_ID

----------------------------------------------------------------------------
(* Properties of the ClinicalCodeMapper *)

\* no entry of the list occurs twice
NoDuplicates(list) ==
    \A a, b \in 1..Len(list) : a # b => list[a] # list[b]

\* C11: for every admission, neither the hierarchy-reduced list nor the
\* grouped (CCS) list of the admission holds an entry twice.
C11_NoDuplicateCodes ==
    /\ NoDuplicates(tempSmallICDCodeList)
    /\ NoDuplicates(tempCCSCodeList)

----------------------------------------------------------------------------
(* Properties of the exclusion of NEWBORN and deceased admissions *)

\* the row is of type NEWBORN or has a death time
Excluded(r) == r.ADMISSION_TYPE = Some("NEWBORN") \/ ~IsMissing(r.DEATHTIME)

\* the HADM_IDs of the rows of df
TableIds(df) == { df[i].HADM_ID : i \in 1..Len(df) }

\* C12: the final admission table holds no admission of type NEWBORN and none
\* with a death time, and the pools of admission ids that the splits, the
\* reserve and the chunk rows are drawn from hold ids of that table only.
C12_NoNewbornNoDeceased ==
    /\ pc_adm \in {"filtered", "pooled"} =>
          \A i \in 1..Len(df_adm) : ~Excluded(df_adm[i])
    /\ pc_adm = "pooled" =>
          /\ readmit_ID \cup not_readmit_ID = TableIds(df_adm)
          /\ readmit_ID \cap not_readmit_ID = {}

\* C12 witness: the pools are drawn and hold an admission whose previous
\* admission, a NEWBORN one, is no longer in the table
C12_Witness ==
    /\ pc_adm = "pooled"
    /\ \E i \in 1..Len(df_adm) :
          /\ df_adm[i].PREV_ADMISSION_TYPE = Some("NEWBORN")
          /\ df_adm[i].HADM_ID \in readmit_ID \cup not_readmit_ID
          /\ \A j \in 1..Len(df_adm) : df_adm[j].ADMISSION_TYPE # Some("NEWBORN")

\* C16: the filter of lines 254-255 comes last: an admission that stays in the
\* final table keeps the NEXT_ADMITTIME, DAYS_NEXT_ADMIT and OUTPUT_LABEL that
\* follow from the first later non-ELECTIVE admission of its patient in the
\* unfiltered table, whether or not that admission is itself filtered out.
C16_ExclusionIsFinalFilter ==
    [][ (pc_adm = "labelled" /\ pc_adm' = "filtered") =>
          \A i \in 1..Len(df_adm) :
             ~Excluded(df_adm[i]) =>
                \E j \in 1..Len(df_adm') :
                   /\ df_adm'[j].HADM_ID = df_adm[i].HADM_ID
                   /\ df_adm'[j].NEXT_ADMITTIME =
                         IF LaterNonElective(df_adm, i) = {} THEN Missing
                         ELSE df_adm[SetMin(LaterNonElective(df_adm, i))].ADMITTIME
                   /\ df_adm'[j].DAYS_NEXT_ADMIT =
                         Minus(df_adm'[j].NEXT_ADMITTIME, df_adm'[j].DISCHTIME)
                   /\ IsMissing(df_adm'[j].DAYS_NEXT_ADMIT) => df_adm'[j].OUTPUT_LABEL = 0
                   /\ ~IsMissing(df_adm'[j].DAYS_NEXT_ADMIT) =>
                         /\ df_adm'[j].DAYS_NEXT_ADMIT[1] >= LabelWindowDays
                               => df_adm'[j].OUTPUT_LABEL = 0
                         /\ (0 <= df_adm'[j].DAYS_NEXT_ADMIT[1]
                               /\ df_adm'[j].DAYS_NEXT_ADMIT[1] < LabelWindowDays)
                               => df_adm'[j].OUTPUT_LABEL = 1
      ]_vars

\* C16 witness: a row of the final table is labelled 1 from a next admission
\* of its patient that is not in the final table
C16_Witness ==
    /\ pc_adm = "filtered"
    /\ \E i \in 1..Len(df_adm) :
          /\ ~IsMissing(df_adm[i].NEXT_ADMITTIME)
          /\ df_adm[i].OUTPUT_LABEL = 1
          /\ df_adm[i].DAYS_NEXT_ADMIT[1] >= 0
          /\ \A j \in 1..Len(df_adm) :
                df_adm[j].SUBJECT_ID = df_adm[i].SUBJECT_ID
                   => df_adm[j].ADMITTIME # df_adm[i].NEXT_ADMITTIME

----------------------------------------------------------------------------
(* Properties of the input and output statements of a run *)

\* the dataset files among the files the run has written
WrittenCsv == { written[k] : k \in { n \in 1..Len(written) : written[n] \notin VocabPaths } }

\* the dataset file <f>.csv of the note-window configuration d
CsvPath(d, f) == d \o "/" \o f \o ".csv"

\* C13: when a run aborts on a missing input file or on its output directory,
\* it has written no vocabulary file and no dataset file.
C13_AbortLeavesNoOutput ==
    /\ pc_run = "aborted" => written = <<>>
    /\ pc_main = "aborted" => output_dir = "nonempty"

\* C14 as claimed: a completed run has written train, val and test for each
\* of the three note-window configurations.
C14_ThreeFilesPerWindow ==
    pc_run = "done" =>
        \A d \in OutputDirs : \A f \in {"train", "val", "test"} : CsvPath(d, f) \in WrittenCsv

\* C14 amended: a completed run has written train, val and test for the
\* discharge-summary and the 3-day configurations and test alone for the
\* 2-day configuration, and no other dataset file.
C14_SevenDatasetFiles ==
    pc_run = "done" =>
        WrittenCsv = { CsvPath(d, f) : d \in {"discharge", "3days"}, f \in {"train", "val", "test"} }
                        \cup { CsvPath("2days", "test") }

\* C14 witness: a run has completed
C14_Witness ==
    /\ pc_run = "done"
    /\ CsvPath("2days", "test") \in WrittenCsv

----------------------------------------------------------------------------
(* Properties of the concept list of the MedicationNormalizer *)

\* the raw values the loop has handled so far
HandledMeds == { med_values[k] : k \in 1..med_pos }

\* the concepts the table gives for a set of present raw values
ConceptsOf(vs) ==
    { ndcCuiMap[NdcString(v[1])] : v \in { w \in vs : NdcString(w[1]) \in DOMAIN ndcCuiMap } }

\* C15: every concept of the concept list comes from a value that was not
\* replaced by the sentinel (a present, non-zero value of the NDC universe),
\* and the list never holds the sentinel itself.
C15_NoConceptFromSentinel ==
    /\ Range(temp_cuis_list) \subseteq ConceptsOf(HandledMeds \cap ValidMeds)
    /\ "0" \notin Range(temp_cuis_list)

\* C20: the concept list holds the concepts the table gives for the original
\* values of the admission, whether or not they were replaced by the sentinel
\* for the code list, and no others.
C20_LookupOnOriginalValue ==
    Range(temp_cuis_list) = ConceptsOf({ v \in HandledMeds : ~IsMissing(v) })

----------------------------------------------------------------------------
(* Properties of writeToJSON *)

\* C17: a call of writeToJSON never removes a code from a file and never
\* changes the index of a code the file already holds; it only adds codes.
C17_ExistingEntriesWin ==
    [][ \A path \in VocabPaths :
           IsFile(files, path) =>
              /\ IsFile(files', path)
              /\ \A code \in DOMAIN files[path][1] :
                    /\ code \in DOMAIN files'[path][1]
                    /\ files'[path][1][code] = files[path][1][code]
      ]_vars

\* C17 witness: a file written twice that holds every code, two of them with
\* the same index
C17_Witness ==
    \E path \in PersistPaths :
        /\ file_writes[path] = 2
        /\ DOMAIN files[path][1] = PersistCodes
        /\ files[path][1]["0"] = files[path][1]["D_4280"]

----------------------------------------------------------------------------
(* Properties of two runs over the same reference tables *)

\* C18: two runs that are given the same reference tables and find no
\* vocabulary file write the same code-to-index mapping.
C18_SameVocabularyInEveryRun ==
    (\A r \in TwinRuns : ~IsMissing(run_vocab[r])) => run_vocab[1] = run_vocab[2]

----------------------------------------------------------------------------
(* Properties of the early-notes selections *)

\* the DURATION cell of the admission with the given HADM_ID
DurationOf(id) == df_adm[CHOOSE i \in 1..Len(df_adm) : df_adm[i].HADM_ID = id].DURATION

\* the admission stayed at least n days
StayedAtLeast(id, n) == ~IsMissing(DurationOf(id)) /\ DurationOf(id)[1] >= n

\* C19 as claimed: every admission of the 3-day val set and of the 3-day test
\* set stayed at least 3 days, and every admission of the 2-day test set at
\* least 2 days.
C19_EarlyValAndTestStayedLongEnough ==
    /\ \A id \in early_val : StayedAtLeast(id, 3)
    /\ \A id \in early_test : StayedAtLeast(id, 3)
    /\ \A id \in early_test_2days : StayedAtLeast(id, 2)

\* C19 amended: every admission of the 3-day test set stayed at least 3 days
\* and every admission of the 2-day test set at least 2 days; the 3-day val
\* set holds every val admission with notes in the first 3 days, whatever its
\* stay.
C19_EarlyTestStayedLongEnough ==
    /\ \A id \in early_test : StayedAtLeast(id, 3)
    /\ \A id \in early_test_2days : StayedAtLeast(id, 2)
    /\ pc_early # "start" => early_val = { r.id : r \in val_id_label } \cap df_less_3

\* C19 witness: the three selections are made; of two test admissions with
\* notes in the first 2 days, the one that stayed 2 days is in the 2-day test
\* set only and the one that stayed 3 days is in both test sets
C19_Witness ==
    /\ pc_early = "test_2days"
    /\ \E a, b \in df_less_2 :
          /\ DurationOf(a) = Some(2) /\ DurationOf(b) = Some(3)
          /\ a \in early_test_2days \ early_test
          /\ b \in early_test_2days \cap early_test


(***************************************************************************)
(* Properties of the split sizes                                           *)
(***************************************************************************)

\* n is the integer nearest to a / b, the even one of the two when a / b lies
\* exactly between two integers
IsNearest(n, a, b) ==
    LET d == IF b * n >= a THEN b * n - a ELSE a - b * n
    IN /\ 2 * d <= b
       /\ 2 * d = b => n % 2 = 0

\* the ids of one class in a split
ClassIds(id_label, l) == { r.id : r \in { s \in id_label : s.label = l } }

\* val, test and train partition the pool, val and test together hold
\* round(0.2 * N) of its N admissions, val round(0.5 * that) and test the rest
PartitionsPool(pool, l) ==
    LET tr == ClassIds(train_id_label, l)
        va == ClassIds(val_id_label, l)
        te == ClassIds(test_id_label, l)
    IN /\ tr \cup va \cup te = pool
       /\ tr \cap va = {} /\ tr \cap te = {} /\ va \cap te = {}
       /\ IsNearest(Cardinality(va) + Cardinality(te), 2 * Cardinality(pool), 10)
       /\ IsNearest(Cardinality(va), Cardinality(va) + Cardinality(te), 2)
       /\ Cardinality(tr) = Cardinality(pool) - Cardinality(va) - Cardinality(te)

\* C22: within each class the validation, test and training sets partition
\* the balanced class pool; validation and test together hold round(0.2 * N)
\* of the N admissions of the pool, validation holds round(0.5 * that number)
\* and test the rest.
C22_SplitSizes ==
    pc_split = "split" =>
        /\ PartitionsPool(readmit_ID, 1)
        /\ PartitionsPool(not_readmit_ID_use, 0)

\* C22 witness: a split of a pool whose 20 percent is an odd number of
\* admissions, so that the half taken for validation is a tie
C22_Witness ==
    /\ pc_split = "split"
    /\ Cardinality(readmit_ID) >= 3
    /\ (Cardinality(ClassIds(val_id_label, 1)) + Cardinality(ClassIds(test_id_label, 1))) % 2 = 1
    /\ ClassIds(train_id_label, 0) # {}


(***************************************************************************)
(* Properties of the reserve draws                                         *)
(***************************************************************************)

\* the ids of the val and test sets
HeldOutIds == Ids(val_id_label) \cup Ids(test_id_label)

\* C21: the admissions drawn from the reserve for the discharge training set
\* and for the 3-day training set are all not-readmitted (label 0) and none is
\* in the balanced pool, so the ids of both training sets stay disjoint from
\* the val and test ids.
C21_ReserveDrawsStayOutOfPool ==
    /\ not_readmit_ID_more \subseteq not_readmit_ID
    /\ not_readmit_ID_more \cap not_readmit_ID_use = {}
    /\ not_readmit_ID_more \cap readmit_ID = {}
    /\ discharge_train_ids \cap HeldOutIds = {}
    /\ early_train_ids \cap HeldOutIds = {}

\* C21 witness: both draws were made in a run with a non-empty test set, and
\* the second draw took an admission the first had not taken
C21_Witness ==
    /\ pc_reserve = "done"
    /\ test_id_label # {}
    /\ Cardinality(early_train_ids \ Ids(train_id_label)) = EarlyDraw
    /\ Cardinality(discharge_train_ids \ Ids(train_id_label)) = DischargeDraw
    /\ ~(early_train_ids \subseteq discharge_train_ids)

\* C30: the balanced pool is drawn only when there are at least as many
\* not-readmitted as readmitted admissions, the reserve draws only when the
\* reserve holds at least DischargeDraw and EarlyDraw admissions; a run whose
\* pool is too small stops at that draw and writes none of the dataset files
\* that come after it.
C30_SamplingPreconditions ==
    /\ pc_split \notin {"idle", "pools", "aborted"} =>
            Cardinality(not_readmit_ID) >= Cardinality(readmit_ID)
    /\ pc_split = "aborted" =>
            /\ Cardinality(not_readmit_ID) < Cardinality(readmit_ID)
            /\ csv_out = <<>> /\ pc_reserve = "split"
    /\ pc_reserve \in {"discharge_train", "discharge_written", "early_train", "done",
                       "aborted_early"} =>
            Cardinality(reserve_df) >= DischargeDraw
    /\ pc_reserve = "aborted_discharge" =>
            /\ Cardinality(reserve_df) < DischargeDraw
            /\ csv_out = <<>>
    /\ pc_reserve \in {"early_train", "done"} => Cardinality(reserve_df) >= EarlyDraw
    /\ pc_reserve = "aborted_early" =>
            /\ Cardinality(reserve_df) < EarlyDraw
            /\ \A k \in 1..Len(csv_out) :
                  csv_out[k] \in { CsvPath("discharge", f) : f \in {"train", "val", "test"} }

\* C30 witness: three runs that stopped at each of the draws are told apart by
\* the last of them, which wrote the discharge files and stopped at line 513
C30_Witness ==
    /\ pc_reserve = "aborted_early"
    /\ Len(csv_out) = 3
    /\ Cardinality(reserve_df) = DischargeDraw


(***************************************************************************)
(* Properties of two processes on one directory                            *)
(***************************************************************************)

\* the processes that have dumped the vocabulary file f
Dumped(f) ==
    { p \in DOMAIN pending : pending[p].path = f /\ ~(runs[p].pc = "dump") }

\* C23: a vocabulary file is written more than once only when two processes
\* run on the directory: both pass the guard while the file is absent and both
\* dump it, the later dump replacing the indices of the earlier.  A single
\* process writes each file at most once.
C23_DoubleWriteNeedsTwoWriters ==
    \A f \in DOMAIN file_writes : file_writes[f] <= Cardinality(writers)

\* C23 witness: both processes have dumped the same file, with different
\* indices, and the file holds those of one of them
C23_Witness ==
    \E f \in DOMAIN file_writes :
        /\ file_writes[f] = 2
        /\ Dumped(f) = {1, 2}
        /\ pending[1].content # pending[2].content
        /\ DOMAIN pending[1].content = DOMAIN pending[2].content
        /\ files[f] \in {Some(pending[1].content), Some(pending[2].content)}


(***************************************************************************)
(* Properties of the previous-discharge columns                            *)
(***************************************************************************)

\* row i is the first admission of its patient in the sorted table / has an
\* admission of the same patient right before it
FirstOfPatient(df, i) == i = 1 \/ df[i-1].SUBJECT_ID # df[i].SUBJECT_ID

LastOfPatient(df, i) == i = Len(df) \/ df[i+1].SUBJECT_ID # df[i].SUBJECT_ID

\* C26: for a patient with at least two admissions (all discharge times
\* present), every admission but the first has the discharge time of the
\* admission before it as PREV_DISCHTIME; the first admission gets its own
\* discharge time through the backward fill, so its DAYS_PREV_ADMIT is its
\* admit time minus its own discharge time.
C26_PrevDischargeBackFilled ==
    pc_adm \in {"filled", "labelled"} =>
        \A i \in 1..Len(df_adm) :
            /\ ~FirstOfPatient(df_adm, i) =>
                  /\ df_adm[i].PREV_DISCHTIME = df_adm[i-1].DISCHTIME
                  /\ df_adm[i].DAYS_PREV_ADMIT =
                        Some(df_adm[i].ADMITTIME[1] - df_adm[i-1].DISCHTIME[1])
            /\ (FirstOfPatient(df_adm, i) /\ ~LastOfPatient(df_adm, i)) =>
                  /\ df_adm[i].PREV_DISCHTIME = df_adm[i].DISCHTIME
                  /\ df_adm[i].DAYS_PREV_ADMIT =
                        Some(df_adm[i].ADMITTIME[1] - df_adm[i].DISCHTIME[1])

\* C26 witness: the second patient of the table has two admissions, and the
\* first of them has a negative DAYS_PREV_ADMIT
C26_Witness ==
    /\ pc_adm = "filled"
    /\ \E i \in 2..Len(df_adm) :
          /\ FirstOfPatient(df_adm, i) /\ ~LastOfPatient(df_adm, i)
          /\ df_adm[i].DAYS_PREV_ADMIT = Some(0 - 40)
          /\ df_adm[i+1].PREV_DISCHTIME = df_adm[i].DISCHTIME


(***************************************************************************)
(* Properties of malformed timestamps                                      *)
(***************************************************************************)

\* the rows of the table have their gaps and labels
GapsComputed == pc_adm \in {"labelled", "filtered", "pooled"}

\* C24: a malformed admission or discharge timestamp becomes a missing time
\* and the run goes on; an admission whose discharge time or next admit time
\* is missing has a missing DAYS_NEXT_ADMIT and the label 0.
C24_MalformedTimeGivesLabelZero ==
    /\ [][pc_adm = "read" =>
            /\ pc_adm' = "loaded"
            /\ \A i \in 1..Len(df_adm) : \A col \in {"ADMITTIME", "DISCHTIME"} :
                  ~df_adm[i][col].well_formed => IsMissing(df_adm'[i][col])]_vars
    /\ [](GapsComputed =>
            \A i \in 1..Len(df_adm) :
                (IsMissing(df_adm[i].DISCHTIME) \/ IsMissing(df_adm[i].NEXT_ADMITTIME)) =>
                    /\ IsMissing(df_adm[i].DAYS_NEXT_ADMIT)
                    /\ df_adm[i].OUTPUT_LABEL = 0)

\* C24 witness: the run reached the final table; an admission with a
\* malformed discharge time is followed by an admission of its patient 35
\* days after its own admission
C24_Witness ==
    /\ pc_adm = "filtered"
    /\ \E i \in 1..Len(df_adm) :
          /\ IsMissing(df_adm[i].DISCHTIME)
          /\ df_adm[i].NEXT_ADMITTIME = Some(df_adm[i].ADMITTIME[1] + 35)
          /\ df_adm[i].OUTPUT_LABEL = 0


(***************************************************************************)
(* Properties of the code lists of the next admission                      *)
(***************************************************************************)

\* the column a NEXT_ column is shifted from
NextOf(col) == "NEXT_" \o col

\* C27: the NEXT_ code lists of an admission are the lists of the admission
\* right after it among the admissions of its patient that the NEWBORN / death
\* filter retained, ELECTIVE or not; the last retained admission of a patient
\* has none.
C27_NextListsOfFollowingRow ==
    pc_adm = "next_lists" =>
        \A i \in 1..Len(df_adm) : \A col \in ListColumns :
            df_adm[i][NextOf(col)] =
                IF LastOfPatient(df_adm, i) THEN Missing ELSE df_adm[i+1][col]

\* C27 witness: an admission whose NEXT_ADMITTIME is not the admit time of the
\* admission its NEXT_ lists come from
C27_Witness ==
    /\ pc_adm = "next_lists"
    /\ \E i \in 1..Len(df_adm) :
          /\ ~LastOfPatient(df_adm, i)
          /\ df_adm[i+1].ADMISSION_TYPE = Some("ELECTIVE")
          /\ ~IsMissing(df_adm[i].NEXT_ADMITTIME)
          /\ df_adm[i].NEXT_ADMITTIME # df_adm[i+1].ADMITTIME
          /\ df_adm[i].NEXT_DIAG_CCS = df_adm[i+1].DIAG_CCS


(***************************************************************************)
(* Properties of empty texts and of the copied fields                      *)
(***************************************************************************)

\* the TEXT cell is missing or holds a text without words
BlankText(cell) == IsMissing(cell) \/ cell = Some(Tokens(0))

\* C25: an admission whose text is empty or missing produces no output row,
\* and every chunk row carries the structured cells and the label of the
\* admission it was cut from, unchanged.
C25_BlankTextNoRowsFieldsCopied ==
    /\ [][(pc_chunk = "raw" /\ BlankText(note[1].TEXT)) => note'[1].TEXT = <<>>]_vars
    /\ []((pc_chunk # "raw" /\ note[1].TEXT = <<>>) => want = <<>>)
    /\ [](\A k \in 1..Len(want) :
            /\ \A c \in StructuredColumns : want[k][c] = note[1][c]
            /\ want[k].Label = note[1].OUTPUT_LABEL)

\* C25 witness: the text of the admission had no words and the chunker ended
\* without a row
C25_Witness ==
    /\ pc_chunk = "done"
    /\ note[1].TEXT = <<>>
    /\ want = <<>>


(***************************************************************************)
(* Properties of the group codes and their vocabulary                      *)
(***************************************************************************)

\* lines 166-169: the keys of CCSToIdx.json as a run builds it from the table
CcsVocabularyKeys(table) ==
    LET ccsSet == { Strip(table[c]) : c \in DOMAIN table }
    IN DOMAIN featureToIdx(CHOOSE q \in SetOrders(ccsSet) : TRUE)

\* C28: every group (CCS) code appended to the group list of an admission is
\* a key of the group-code vocabulary the same run builds from the table.
C28_GroupCodesAreVocabularyKeys ==
    \A k \in 1..Len(tempCCSCodeList) :
        tempCCSCodeList[k] \in CcsVocabularyKeys(icd9TOCCS_Map)


(***************************************************************************)
(* Properties of the concept list of an admission                          *)
(***************************************************************************)

\* the values the loop has met before position k
UsedBefore(k) == { med_values[n] : n \in 1..(k - 1) }

\* the key that the lookup of line 207 is made with at position k
LookupKey(k) ==
    IntToStr(ValueAfterCheck(med_values[k], UsedBefore(k), DOMAIN ndcCuiMap)[1])

\* the handled positions whose lookup gives the concept cui
ResolutionsOf(cui) ==
    { k \in 1..med_pos : LookupKey(k) \in DOMAIN ndcCuiMap /\ ndcCuiMap[LookupKey(k)] = cui }

\* C29: every code of the deduplicated medication list is a key of the concept
\* table and its concept is in the concept list of the admission; the concept
\* list has no duplicates and holds the concepts in the order in which they
\* were first resolved.
C29_MedicationCodesResolve ==
    /\ \A k \in 1..Len(unique_medication) :
          /\ unique_medication[k] \in DOMAIN ndcCuiMap
          /\ ndcCuiMap[unique_medication[k]] \in Range(temp_cuis_list)
    /\ NoDuplicates(temp_cuis_list)
    /\ \A a \in 1..Len(temp_cuis_list) :
          /\ ResolutionsOf(temp_cuis_list[a]) # {}
          /\ \A b \in (a + 1)..Len(temp_cuis_list) :
                SetMin(ResolutionsOf(temp_cuis_list[a])) < SetMin(ResolutionsOf(temp_cuis_list[b]))

\* C29 witness: two codes of the medication list resolve to one concept, which
\* comes second in the concept list
C29_Witness ==
    /\ pc_med = "stored"
    /\ Len(unique_medication) = 2
    /\ unique_medication[1] # unique_medication[2]
    /\ ndcCuiMap[unique_medication[1]] = ndcCuiMap[unique_medication[2]]
    /\ Len(temp_cuis_list) = 2
    /\ temp_cuis_list[2] = ndcCuiMap[unique_medication[1]]

====
